---- MODULE Spec2Model ----
(***************************************************************************)
(* Order submission and lifecycle tracking of folio-ibkr.                  *)
(*                                                                         *)
(* The broker client is an event emitter.  useTrade.submitOrder            *)
(* (hooks/useTrade.js), TradeExecutor._submitOrder (server/lib) and        *)
(* useOrders.cancelOrder register listeners on it, arm a timer and settle  *)
(* a promise from whichever of a status event, an error event or the       *)
(* timer comes first.                                                      *)
(*                                                                         *)
(* Encoding of JavaScript values:                                          *)
(*   - a string is a sequence of tokens; the tokens are the literal texts  *)
(*     the patterns of the source look for, the pieces of a line-break     *)
(*     tag, white space and ordinary words;                                *)
(*   - a value that may be null/undefined is a set with at most one        *)
(*     element ({} is null/undefined), except warning and rejection        *)
(*     objects, whose null is the record Null;                             *)
(*   - a timer is the set of its remaining milliseconds ({} is cleared).   *)
(***************************************************************************)
EXTENDS Integers, Sequences, FiniteSets, TLC

\* ------------------------------------------------------------------------
\* Message texts
\* ------------------------------------------------------------------------

\* 'Order TIF was set to DAY based on order preset'
IGNORABLE_MESSAGES == {"TIF"}

\* the captured date-times, 'YYYY-MM-DD HH:MM:SS'
Timestamps == {"2025-01-02 09:30:00"}

\* \s of the regular expressions
WhiteSpace == {" ", "NL"}

\* every character but a line terminator is matched by '.'
IsDot(tok) == tok # "NL"

Null == [type |-> "null"]

Min(S) == CHOOSE x \in S : \A y \in S : x <= y

\* /<prefix>(.+)/ : leftmost occurrence of the prefix that is followed by at
\* least one character of the same line; the group is greedy to the end of
\* that line.  The result is the set of captures of the first match.
MatchPrefixRest(message, prefix) ==
  LET I == {i \in 1..(Len(message) - 1) :
              message[i] = prefix /\ IsDot(message[i + 1])}
  IN IF I = {} THEN {}
     ELSE LET i == Min(I)
              J == {j \in (i + 1)..Len(message) :
                      \A k \in (i + 1)..j : IsDot(message[k])}
              j == CHOOSE x \in J : \A y \in J : y <= x
          IN {SubSeq(message, i + 1, j)}

\* /<phrase>/ without a group
MatchPhrase(message, phrase) ==
  \E i \in 1..Len(message) : message[i] = phrase

\* /<phrase> (\d{4}-\d{2}-\d{2} \d{2}:\d{2}:\d{2})/ : the phrase directly
\* followed by a date-time; the set of captures of the first match.
MatchPhraseTimestamp(message, phrase) ==
  LET I == {i \in 1..(Len(message) - 1) :
              message[i] = phrase /\ message[i + 1] \in Timestamps}
  IN IF I = {} THEN {} ELSE {message[Min(I) + 1]}

\* length of the match of /<br\s*\/?>/i at the head of s, 0 if none
BrTagLen(s) ==
  IF s = <<>> \/ Head(s) \notin {"<br", "<BR"} THEN 0
  ELSE LET W == {n \in 0..(Len(s) - 1) :
                   \A k \in 2..(n + 1) : s[k] \in WhiteSpace}
           w == CHOOSE n \in W :
                  /\ \A m \in W : m <= n
           afterWs == w + 2
           afterSlash == IF afterWs <= Len(s) /\ s[afterWs] = "/"
                         THEN afterWs + 1 ELSE afterWs
       IN IF afterSlash <= Len(s) /\ s[afterSlash] = ">"
          THEN afterSlash ELSE 0

\* reason.replace(/<br\s*\/?>/gi, ' ') : one pass, left to right
RECURSIVE ReplaceBr(_)
ReplaceBr(s) ==
  IF s = <<>> THEN <<>>
  ELSE IF BrTagLen(s) > 0
       THEN <<" ">> \o ReplaceBr(SubSeq(s, BrTagLen(s) + 1, Len(s)))
       ELSE <<Head(s)>> \o ReplaceBr(Tail(s))

\* String.prototype.trim
RECURSIVE Trim(_)
Trim(s) ==
  IF s = <<>> THEN <<>>
  ELSE IF Head(s) \in WhiteSpace THEN Trim(Tail(s))
  ELSE IF s[Len(s)] \in WhiteSpace THEN Trim(SubSeq(s, 1, Len(s) - 1))
  ELSE s

\* REJECTION_PATTERNS, in the order of the source
REJECTION_PATTERNS ==
  << [kind |-> "rest",   text |-> "Orden rechazada. Motivo:",
      type |-> "rejected"],
     [kind |-> "rest",   text |-> "Order rejected. Reason:",
      type |-> "rejected"],
     [kind |-> "phrase", text |-> "Efectivo liquidado disponible",
      type |-> "insufficient_funds"],
     [kind |-> "phrase", text |-> "Insufficient funds",
      type |-> "insufficient_funds"] >>

\* WARNING_PATTERNS, in the order of the source
WARNING_PATTERNS ==
  << [kind |-> "ts",     text |-> "no se enviara al mercado hasta el",
      type |-> "market_closed"],
     [kind |-> "ts",     text |-> "will not be sent to the market until",
      type |-> "market_closed"],
     [kind |-> "phrase", text |-> "order will not be active until",
      type |-> "market_closed"],
     [kind |-> "phrase", text |-> "order is being held",
      type |-> "order_held"] >>

PatternMatches(p, message) ==
  CASE p.kind = "rest"   -> MatchPrefixRest(message, p.text) # {}
    [] p.kind = "ts"     -> MatchPhraseTimestamp(message, p.text) # {}
    [] p.kind = "phrase" -> MatchPhrase(message, p.text)

\* match[1] of the pattern's first match ({} when the group is absent)
PatternGroup(p, message) ==
  CASE p.kind = "rest"   -> MatchPrefixRest(message, p.text)
    [] p.kind = "ts"     -> MatchPhraseTimestamp(message, p.text)
    [] p.kind = "phrase" -> {}

\* index of the first pattern of the table that matches, 0 if none
FirstPattern(table, message) ==
  LET M == {n \in 1..Len(table) : PatternMatches(table[n], message)}
  IN IF M = {} THEN 0 ELSE Min(M)

isIgnorableMessage(message) ==
  IF message = <<>> THEN FALSE
  ELSE \E i \in 1..Len(message) : message[i] \in IGNORABLE_MESSAGES

\* match[1] || message, then the tag replacement and the trim
RejectionReason(p, message) ==
  LET g == PatternGroup(p, message)
      raw == IF g = {} THEN message ELSE CHOOSE c \in g : TRUE
  IN Trim(ReplaceBr(raw))

extractRejection(message) ==
  IF message = <<>> THEN Null
  ELSE LET n == FirstPattern(REJECTION_PATTERNS, message)
       IN IF n = 0 THEN Null
          ELSE [type |-> REJECTION_PATTERNS[n].type,
                reason |-> RejectionReason(REJECTION_PATTERNS[n], message),
                rawMessage |-> message]

extractWarning(message) ==
  IF message = <<>> THEN Null
  ELSE LET n == FirstPattern(WARNING_PATTERNS, message)
       IN IF n = 0 THEN Null
          ELSE [type |-> WARNING_PATTERNS[n].type,
                rawMessage |-> message,
                timestamp |-> PatternGroup(WARNING_PATTERNS[n], message)]

\* the copies of the server's trade executor carry no rawMessage
execExtractRejection(message) ==
  IF message = <<>> THEN Null
  ELSE LET n == FirstPattern(REJECTION_PATTERNS, message)
       IN IF n = 0 THEN Null
          ELSE [type |-> REJECTION_PATTERNS[n].type,
                reason |-> RejectionReason(REJECTION_PATTERNS[n], message)]

execExtractWarning(message) ==
  IF message = <<>> THEN Null
  ELSE LET n == FirstPattern(WARNING_PATTERNS, message)
       IN IF n = 0 THEN Null
          ELSE [type |-> WARNING_PATTERNS[n].type,
                timestamp |-> PatternGroup(WARNING_PATTERNS[n], message)]

\* a classification that asks for a warning before a rejection
Classification_warningFirst(message) ==
  IF isIgnorableMessage(message) THEN "ignorable"
  ELSE IF extractWarning(message) # Null THEN "warning"
  ELSE IF extractRejection(message) # Null THEN "rejection"
  ELSE "unclassified"

\* the order in which onError asks the three questions about a message
Classification(message) ==
  IF isIgnorableMessage(message) THEN "ignorable"
  ELSE IF extractRejection(message) # Null THEN "rejection"
  ELSE IF extractWarning(message) # Null THEN "warning"
  ELSE "unclassified"


\* ------------------------------------------------------------------------
\* Constants of the programs
\* ------------------------------------------------------------------------

\* setTimeout delays, in milliseconds
\* Date.now() when the hooks mount
StartMs == 600000

IdTimeoutMs == 5000
SubmitTimeoutMs == 30000
CancelTimeoutMs == 10000

INFO_CODES == {2104, 2106, 2158, 2119}
IGNORED_CODES == {300, 354, 10167}

\* a terminal set that forgets Cancelled
terminalStatuses_noCancelled == {"Filled", "Inactive"}
terminalStatuses == {"Filled", "Cancelled", "Inactive"}
\* an accepted set that waits for the fill
acceptedStatuses_fillOnly == {"Filled"}
acceptedStatuses == {"Submitted", "PreSubmitted", "Filled"}

\* 'Error submitting order' / 'Error al enviar orden' : err?.message || ...
DefaultMessage(app) ==
  IF app = "useTrade" THEN <<"Error submitting order">>
  ELSE <<"Error al enviar orden">>

InitialStatus(app) == IF app = "useTrade" THEN "Submitting" ELSE "Enviando"

NotConnectedMessage(app) ==
  IF app = "useTrade" THEN <<"Not connected">> ELSE <<"No conectado a IB">>

IdTimeoutMessage(app) ==
  IF app = "useTrade" THEN <<"Timeout getting order ID">>
  ELSE <<"Timeout obteniendo order ID">>

\* ------------------------------------------------------------------------
\* What the callers and the broker may do
\* ------------------------------------------------------------------------

\* the two front ends: the terminal UI (useIBConnection + useTrade +
\* useOrders) and the server (IBConnection + TradeExecutor)
Apps == {"useTrade", "TradeExecutor"}

\* submissions and cancels a caller may have outstanding at the same time
Subs == {"s1", "s2"}
\* the submission slot of a caller that submits one order at a time
Solo == {"s1"}
Cans == {"c1"}

\* order ids the broker hands out
OrderIds == {1, 2}

Statuses ==
  {"PendingSubmit", "PreSubmitted", "Submitted", "Filled", "Cancelled",
   "Inactive"}

\* (filled, remaining, avgFillPrice) the broker reports with a status, for
\* an order of 10 shares
Fills(status) ==
  IF status = "Filled"
  THEN [filled |-> 10, remaining |-> 0, avgFillPrice |-> 150]
  ELSE [filled |-> 0, remaining |-> 10, avgFillPrice |-> 0]

StatusEvents ==
  {[id |-> i, status |-> st, filled |-> Fills(st).filled,
    remaining |-> Fills(st).remaining,
    avgFillPrice |-> Fills(st).avgFillPrice] :
     i \in OrderIds, st \in Statuses}

\* broker messages: empty, benign, two rejections, two warnings, and one
\* that no pattern knows ('Market data farm connection is OK:usfarm')
Messages ==
  { <<>>,
    <<"w", "TIF">>,
    <<"Order rejected. Reason:", " ", "w", "<br", ">", "w", "<br", " ", "/",
      ">">>,
    <<"Insufficient funds">>,
    <<"w", "will not be sent to the market until", "2025-01-02 09:30:00">>,
    <<"order is being held">>,
    <<"w">> }

\* data.id of an error event: absent, -1, or an order id
ErrorIds == {{}, {-1}} \cup {{i} : i \in OrderIds}

\* data.code of an error event: absent, informational (2104), an order
\* error (201)
ErrorCodes == {{}, {2104}, {201}}

ErrorEvents ==
  {[message |-> m, id |-> i, code |-> c] :
     m \in Messages, i \in ErrorIds, c \in ErrorCodes}


\* ------------------------------------------------------------------------
\* State
\* ------------------------------------------------------------------------

VARIABLES
  app,        \* which front end runs: "useTrade" or "TradeExecutor"
  conn,       \* connection status: "connecting", "connected", "disconnected"
  listeners,  \* the client's listeners per event, in registration order
  sub,        \* the submissions (closure variables, timers, promise)
  can,        \* the cancel operations
  hook,       \* useTrade's React state and nextOrderIdRef
  ordersMap,  \* useOrders' ordersMapRef: the records, in insertion order
  orders,     \* useOrders' orders state: the pending list
  reg,        \* the rest of useOrders and the broker's side of its requests
  ledger,     \* useExecutionHistory and its backing store
  port,       \* usePortfolioHistory and its backing store
  pure        \* argument and result of a pure function under check

vars ==
  <<app, conn, listeners, sub, can, hook, ordersMap, orders, reg, ledger,
    port, pure>>

\* a promise that is not settled yet
Pending == [kind |-> "pending"]

\* an order id the broker has no order for
NoOrder == [status |-> "none", filled |-> 0]

\* useOrders before its first subscription (subscribedRef, loading) and the
\* clock (Date.now()); the broker's side: its orders (book), the
\* open-order requests it has not answered yet, the ids still to be sent of
\* the snapshot it is sending, and whether its order states carry filled
\* and remaining (full).  refreshed is history only: refresh was called on
\* this connection.
IdleReg ==
  [subscribed |-> FALSE, loading |-> FALSE, now |-> 0,
   book |-> [i \in OrderIds |-> NoOrder], requests |-> 0,
   streaming |-> FALSE, stream |-> <<>>, full |-> FALSE,
   refreshed |-> FALSE]

\* useExecutionHistory before its first load: the prop executions,
\* isLoadedRef, the state allExecutions, knownIdsRef, the writes chained on appendQueueRef and not
\* yet started (queue), the calls of appendJsonl that have started and not
\* returned (writing), and the rows of the file.  History only: written lists the
\* ids of the rows this session added to the file, log holds every
\* execution with an identity that appendExecution was called with, the
\* ledger it left and whether its id was new (fresh).
\* The prop accountId is account; disk is the file of the first account
\* and disk2 the file of the second; queueFile and writingFile hold, for
\* every write of queue and writing, the filePath its appendExecution was
\* created with; stale holds the accounts of the reads still in flight
\* whose effect was cleaned up.  History only: switches counts the changes
\* of account, staleDone the cancelled reads that have ended, and
\* appendedFor holds every new id with the account it was appended for.
IdleLedger ==
  [executions |-> <<>>, loaded |-> FALSE, allExecutions |-> <<>>,
   knownIds |-> {},
   queue |-> <<>>, writing |-> <<>>, disk |-> <<>>, written |-> <<>>,
   log |-> <<>>,
   account |-> "first", disk2 |-> <<>>, queueFile |-> <<>>,
   writingFile |-> <<>>, stale |-> <<>>, switches |-> 0, staleDone |-> 0,
   appendedFor |-> {}]

\* usePortfolioHistory before its first load: isLoadedRef, the state
\* history, lastAppendRef, the props netLiquidation (absent when not a
\* finite number) and Date.now(), the writes chained on appendQueueRef and
\* not yet started (queue), the calls of appendJsonl that have started and
\* not returned (writing), and the rows of the file.  History only: calls
\* counts the calls of appendPoint, and every queued write and every row
\* written carries the number n of its call (0 for the rows found in the
\* file); seeded tells what the last seedIfEmpty did.
\* The prop accountId is account; disk is the file of the first account
\* and disk2 the file of the second; queueFile and writingFile hold, for
\* every write of queue and writing, the filePath its appendPoint was
\* created with; stale holds the accounts of the reads still in flight
\* whose effect was cleaned up.  History only: switches counts the changes
\* of account and callsAtSwitch is calls as it was at the last of them.
IdlePort ==
  [loaded |-> FALSE, history |-> <<>>, lastAppend |-> {},
   netLiquidation |-> {}, now |-> StartMs,
   queue |-> <<>>, writing |-> <<>>, disk |-> <<>>, calls |-> 0,
   seeded |-> "no",
   account |-> "first", disk2 |-> <<>>, queueFile |-> <<>>,
   writingFile |-> <<>>, stale |-> <<>>, switches |-> 0,
   callsAtSwitch |-> 0]

\* no pure function under check
IdlePure == [fn |-> "none"]

\* A submission: pc is its position (idle, allocating an id, tracking the
\* placed order, done), orderId .. orderRejection are the closure variables
\* of the promise, idTimer and timer the two setTimeout handles, placed
\* tells that placeOrder was sent, outcome is what the returned promise was
\* settled with.  The other fields are history only: settleCalls counts
\* the calls of resolve and reject; terminalSeen holds the first terminal
\* status the broker sent for the placed order before the timer fired;
\* resolverSeen holds the first status event with a terminal or accepted
\* status, and fatalSeen the text of the first unclassified error event in
\* scope, that the broker sent while the submission was unresolved; heard
\* tells whether the handlers were on the client when placeOrder was
\* called.  throws is the client's side of the call: its placeOrder will
\* throw.

IdleSub ==
  [pc |-> "idle", orderId |-> 0, lastStatus |-> "", resolved |-> FALSE,
   orderWarning |-> Null, orderRejection |-> Null, idTimer |-> {},
   timer |-> {}, placed |-> FALSE, settleCalls |-> 0, outcome |-> Pending,
   terminalSeen |-> {}, resolverSeen |-> {}, fatalSeen |-> {},
   heard |-> FALSE, throws |-> FALSE]

\* confirmSeen and errorSeen are history only: the broker sent Cancelled
\* for the order, or an error scoped to the order (its text), while the
\* cancel was waiting; heard tells whether the handlers were on the client
\* when cancelOrder was sent.
IdleCan ==
  [pc |-> "idle", orderId |-> 0, timer |-> {}, sent |-> FALSE,
   settleCalls |-> 0, outcome |-> Pending, confirmSeen |-> FALSE,
   errorSeen |-> {}, heard |-> FALSE]

\* the listeners the connection layer itself keeps on the client
ConnListener(fn) == [op |-> "conn", slot |-> "conn", fn |-> fn]
SubListener(s, fn) == [op |-> "sub", slot |-> s, fn |-> fn]
CanListener(c, fn) == [op |-> "can", slot |-> c, fn |-> fn]
\* the listeners of useOrders' subscription
OrdersListener(fn) == [op |-> "orders", slot |-> "orders", fn |-> fn]

\* the listeners of a client on which connect() has registered its own
NewClient ==
  [orderStatus |-> <<>>,
   error |-> <<ConnListener("onError")>>,
   nextValidId |-> <<ConnListener("onNextValidId")>>,
   openOrder |-> <<>>,
   openOrderEnd |-> <<>>]

\* the programs' state as one value, so that a handler is a function of it
World ==
  [app |-> app, conn |-> conn, listeners |-> listeners, sub |-> sub,
   can |-> can, hook |-> hook, ordersMap |-> ordersMap, orders |-> orders,
   reg |-> reg, ledger |-> ledger, port |-> port]

Becomes(W) ==
  /\ app' = W.app
  /\ conn' = W.conn
  /\ listeners' = W.listeners
  /\ sub' = W.sub
  /\ can' = W.can
  /\ hook' = W.hook
  /\ ordersMap' = W.ordersMap
  /\ orders' = W.orders
  /\ reg' = W.reg
  /\ ledger' = W.ledger
  /\ port' = W.port
  /\ UNCHANGED pure

isConnected(W) == W.conn = "connected"

\* EventEmitter.removeListener
RemoveListener(ls, l) == SelectSeq(ls, LAMBDA x : x # l)

\* EventEmitter.on / once
AddListener(ls, l) == Append(ls, l)

\* ------------------------------------------------------------------------
\* Promises: resolve and reject.  Only the first call settles the promise;
\* settleCalls counts every call.
\* ------------------------------------------------------------------------

SettleSub(W, s, value) ==
  [W EXCEPT !.sub[s].settleCalls = @ + 1,
            !.sub[s].pc = "done",
            !.sub[s].outcome = IF @ = Pending THEN value ELSE @]

SettleCan(W, c, value) ==
  [W EXCEPT !.can[c].settleCalls = @ + 1,
            !.can[c].pc = "done",
            !.can[c].outcome = IF @ = Pending THEN value ELSE @]

Rejected(by, message) ==
  [kind |-> "rejected", by |-> by, error |-> message]

\* React state setters of useTrade; the server has no such state
setLoading(W, v) ==
  IF W.app = "useTrade" THEN [W EXCEPT !.hook.loading = v] ELSE W

setError(W, v) ==
  IF W.app = "useTrade" THEN [W EXCEPT !.hook.error = v] ELSE W

setOrderStatus(W, v) ==
  IF W.app = "useTrade" THEN [W EXCEPT !.hook.orderStatus = v] ELSE W


\* ------------------------------------------------------------------------
\* The commands sent to the broker
\* ------------------------------------------------------------------------

\* the orderStatus and error handlers of the operation are on the client
Registered(W, l) ==
  /\ \E i \in 1..Len(W.listeners.orderStatus) :
        W.listeners.orderStatus[i] = [l EXCEPT !.fn = "onOrderStatus"]
  /\ \E i \in 1..Len(W.listeners.error) :
        W.listeners.error[i] = [l EXCEPT !.fn = "onError"]

\* the text of the error a failing placeOrder throws
PlaceFailedMessage == <<"placeOrder failed">>

\* client.placeOrder(orderId, contract, order) returns
placeOrder(W, s) ==
  [W EXCEPT !.sub[s].placed = TRUE,
            !.sub[s].heard = Registered(W, SubListener(s, "")) ]

\* client.cancelOrder(orderId)
sendCancel(W, c) ==
  [W EXCEPT !.can[c].sent = TRUE,
            !.can[c].heard = Registered(W, CanListener(c, ""))]

\* ------------------------------------------------------------------------
\* Id allocation: useTrade.getNextOrderId / IBConnection.getNextOrderId
\* ------------------------------------------------------------------------

\* cleanup of getNextOrderId
IdCleanup(W, s) ==
  [W EXCEPT !.sub[s].idTimer = {},
            !.listeners.nextValidId =
               RemoveListener(@, SubListener(s, "onNextValidId"))]

\* the body of the promise of getNextOrderId; a rejection is handed to the
\* caller as the set of its message, {} while the promise is pending
getNextOrderId(W, s) ==
  IF ~isConnected(W)
  THEN [world |-> W, rejection |-> {NotConnectedMessage("useTrade")}]
  ELSE [world |->
          [W EXCEPT !.sub[s].idTimer = {IdTimeoutMs},
                    !.listeners.nextValidId =
                       AddListener(@, SubListener(s, "onNextValidId"))],
        rejection |-> {}]

\* ------------------------------------------------------------------------
\* useTrade.submitOrder
\* ------------------------------------------------------------------------

\* a cleanup that clears the timer and leaves the listeners
cleanup_keepsListeners(W, s) == [W EXCEPT !.sub[s].timer = {}]

\* cleanup of submitOrder's promise
cleanup(W, s) ==
  [W EXCEPT !.sub[s].timer = {},
            !.listeners.orderStatus =
               RemoveListener(@, SubListener(s, "onOrderStatus")),
            !.listeners.error =
               RemoveListener(@, SubListener(s, "onError"))]

\* an Outcome that drops the reason
ReasonOf_dropped(rejection) == {}

\* orderRejection?.reason
ReasonOf(rejection) == IF rejection = Null THEN {} ELSE {rejection.reason}

\* the precedence of the server's executor: the warning first
TimeoutStatus_warningFirst(me) ==
  IF me.orderWarning # Null THEN "Submitted"
  ELSE IF me.orderRejection # Null THEN "Inactive"
  ELSE me.lastStatus

\* status of the Outcome the timer resolves with
TimeoutStatus(me) ==
  IF me.orderRejection # Null THEN "Inactive"
  ELSE IF me.orderWarning # Null THEN "Submitted"
  ELSE me.lastStatus

\* the setTimeout callback of submitOrder
onTimeout(W, s) ==
  LET me == W.sub[s]
  IN IF ~me.resolved
     THEN SettleSub(setLoading(cleanup(W, s), FALSE), s,
            [kind |-> "resolved", by |-> "timer", orderId |-> me.orderId,
             status |-> TimeoutStatus(me), filled |-> {},
             avgFillPrice |-> {}, warning |-> me.orderWarning,
             rejectionReason |-> ReasonOf(me.orderRejection)])
     ELSE W

onOrderStatus(W, s, ev) ==
  LET me == W.sub[s]
  IN IF ev.id # me.orderId THEN W
     ELSE
       LET W1 == setOrderStatus(
                   [W EXCEPT !.sub[s].lastStatus = ev.status],
                   {[orderId |-> ev.id, status |-> ev.status,
                     filled |-> ev.filled, remaining |-> ev.remaining,
                     avgFillPrice |-> ev.avgFillPrice]})
       IN IF ~me.resolved
             /\ (ev.status \in terminalStatuses
                   \/ ev.status \in acceptedStatuses)
          THEN SettleSub(
                 setLoading(
                   cleanup([W1 EXCEPT !.sub[s].resolved = TRUE], s), FALSE),
                 s,
                 [kind |-> "resolved", by |-> "status", orderId |-> ev.id,
                  status |-> ev.status, filled |-> {ev.filled},
                  avgFillPrice |-> {ev.avgFillPrice},
                  warning |-> me.orderWarning,
                  rejectionReason |-> ReasonOf(me.orderRejection)])
          ELSE W1

\* a scope check that takes every event without this order's id for
\* another order's
ForOtherOrder_strict(ev, orderId) == ev.id # {orderId}

\* a scope check that takes every error event for this order's
ForOtherOrder_unscoped(ev, orderId) == FALSE

\* errorId !== undefined && errorId !== -1 && errorId !== orderId
ForOtherOrder(ev, orderId) ==
  ev.id # {} /\ ev.id # {-1} /\ ev.id # {orderId}

\* an error handler that fails the submission on a rejection at once
onError_rejectsAtOnce(W, s, ev) ==
  LET me == W.sub[s]
      message == IF ev.message = <<>> THEN DefaultMessage("useTrade")
                 ELSE ev.message
  IN IF me.resolved THEN W
     ELSE IF ForOtherOrder(ev, me.orderId) THEN W
     ELSE IF Classification(message) = "ignorable" THEN W
     ELSE IF Classification(message) = "warning"
          THEN [W EXCEPT !.sub[s].orderWarning = extractWarning(message)]
     ELSE SettleSub(
            setError(
              setLoading(
                cleanup([W EXCEPT !.sub[s].resolved = TRUE], s), FALSE),
              {message}),
            s, Rejected("error", message))

onError(W, s, ev) ==
  LET me == W.sub[s]
      message == IF ev.message = <<>> THEN DefaultMessage("useTrade")
                 ELSE ev.message
  IN IF me.resolved THEN W
     ELSE IF ForOtherOrder(ev, me.orderId) THEN W
     ELSE IF Classification(message) = "ignorable" THEN W
     ELSE IF Classification(message) = "rejection"
          THEN [W EXCEPT !.sub[s].orderRejection = extractRejection(message)]
     ELSE IF Classification(message) = "warning"
          THEN [W EXCEPT !.sub[s].orderWarning = extractWarning(message)]
     ELSE SettleSub(
            setError(
              setLoading(
                cleanup([W EXCEPT !.sub[s].resolved = TRUE], s), FALSE),
              {message}),
            s, Rejected("error", message))

\* an executor that places the order before it listens
StartTracking_placesFirst(W, s, orderId) ==
  LET W1 == placeOrder(
              [W EXCEPT !.sub[s].pc = "tracking",
                        !.sub[s].orderId = orderId,
                        !.sub[s].lastStatus = InitialStatus("useTrade"),
                        !.sub[s].resolved = FALSE,
                        !.sub[s].orderWarning = Null,
                        !.sub[s].orderRejection = Null,
                        !.sub[s].timer = {SubmitTimeoutMs}],
              s)
  IN [W1 EXCEPT !.listeners.orderStatus =
                   AddListener(@, SubListener(s, "onOrderStatus")),
                !.listeners.error =
                   AddListener(@, SubListener(s, "onError"))]

\* the executor of submitOrder's promise, run once the id has arrived
StartTracking(W, s, orderId) ==
  LET W1 == [W EXCEPT !.sub[s].pc = "tracking",
                      !.sub[s].orderId = orderId,
                      !.sub[s].lastStatus = InitialStatus("useTrade"),
                      !.sub[s].resolved = FALSE,
                      !.sub[s].orderWarning = Null,
                      !.sub[s].orderRejection = Null,
                      !.sub[s].timer = {SubmitTimeoutMs},
                      !.listeners.orderStatus =
                         AddListener(@, SubListener(s, "onOrderStatus")),
                      !.listeners.error =
                         AddListener(@, SubListener(s, "onError"))]
  IN IF W.sub[s].throws
     THEN SettleSub(W1, s, Rejected("place", PlaceFailedMessage))
     ELSE placeOrder(W1, s)

\* onNextValidId of getNextOrderId, and the code after the await
onNextValidId(W, s, orderId) ==
  LET W1 == IdCleanup(W, s)
      W2 == [W1 EXCEPT !.hook.nextOrderIdRef = {orderId}]
  IN StartTracking(W2, s, orderId)

\* the setTimeout callback of getNextOrderId and submitOrder's catch
onIdTimeout(W, s) ==
  LET W1 == IdCleanup(W, s)
      message == IdTimeoutMessage("useTrade")
  IN SettleSub(setError(setLoading(W1, FALSE), {message}), s,
               Rejected("preflight", message))

\* a submitOrder that touches the React state before the connection check
submitOrder_loadingFirst(W, s) ==
  LET W0 == setOrderStatus(
              setError(setLoading([W EXCEPT !.sub[s] = IdleSub], TRUE), {}),
              {})
  IN IF ~isConnected(W0)
     THEN SettleSub(W0, s,
            Rejected("preflight", NotConnectedMessage("useTrade")))
     ELSE [getNextOrderId(W0, s).world EXCEPT !.sub[s].pc = "allocating"]

\* a call of submitOrder, up to its first await
submitOrder(W, s) ==
  LET W0 == [W EXCEPT !.sub[s] = IdleSub]
  IN IF ~isConnected(W0)
     THEN SettleSub(W0, s,
            Rejected("preflight", NotConnectedMessage("useTrade")))
     ELSE
       LET W1 == setOrderStatus(setError(setLoading(W0, TRUE), {}), {})
           r == getNextOrderId(W1, s)
       IN IF r.rejection # {}
          THEN SettleSub(
                 setError(setLoading(r.world, FALSE), r.rejection), s,
                 Rejected("preflight", CHOOSE m \in r.rejection : TRUE))
          ELSE [r.world EXCEPT !.sub[s].pc = "allocating"]


\* ------------------------------------------------------------------------
\* TradeExecutor._submitOrder (server)
\* ------------------------------------------------------------------------

\* a key the resolved object does not have
Undefined == [type |-> "undefined"]

execCleanup(W, s) ==
  [W EXCEPT !.sub[s].timer = {},
            !.listeners.orderStatus =
               RemoveListener(@, SubListener(s, "onOrderStatus")),
            !.listeners.error =
               RemoveListener(@, SubListener(s, "onError"))]

execOnTimeout(W, s) ==
  LET me == W.sub[s]
  IN IF ~me.resolved
     THEN IF me.orderWarning # Null
          THEN SettleSub(execCleanup(W, s), s,
                 [kind |-> "resolved", by |-> "timer",
                  orderId |-> me.orderId, status |-> "Submitted",
                  filled |-> {}, avgFillPrice |-> {},
                  warning |-> me.orderWarning, rejectionReason |-> {}])
          ELSE IF me.orderRejection # Null
          THEN SettleSub(execCleanup(W, s), s,
                 Rejected("timer", me.orderRejection.reason))
          ELSE SettleSub(execCleanup(W, s), s,
                 [kind |-> "resolved", by |-> "timer",
                  orderId |-> me.orderId, status |-> me.lastStatus,
                  filled |-> {}, avgFillPrice |-> {},
                  warning |-> Undefined, rejectionReason |-> {}])
     ELSE W

execOnOrderStatus(W, s, ev) ==
  LET me == W.sub[s]
  IN IF ev.id # me.orderId THEN W
     ELSE
       LET W1 == [W EXCEPT !.sub[s].lastStatus = ev.status]
       IN IF ~me.resolved
             /\ (ev.status \in terminalStatuses
                   \/ ev.status \in acceptedStatuses)
          THEN LET W2 == execCleanup([W1 EXCEPT !.sub[s].resolved = TRUE], s)
               IN IF ev.status = "Inactive" /\ me.orderRejection # Null
                  THEN SettleSub(W2, s,
                         Rejected("status", me.orderRejection.reason))
                  ELSE SettleSub(W2, s,
                         [kind |-> "resolved", by |-> "status",
                          orderId |-> ev.id, status |-> ev.status,
                          filled |-> {ev.filled},
                          avgFillPrice |-> {ev.avgFillPrice},
                          warning |-> me.orderWarning,
                          rejectionReason |-> {}])
          ELSE W1

execOnError(W, s, ev) ==
  LET me == W.sub[s]
      message == IF ev.message = <<>> THEN DefaultMessage("TradeExecutor")
                 ELSE ev.message
  IN IF me.resolved THEN W
     ELSE IF ForOtherOrder(ev, me.orderId) THEN W
     ELSE IF Classification(message) = "ignorable" THEN W
     ELSE IF Classification(message) = "rejection"
          THEN [W EXCEPT !.sub[s].orderRejection =
                            execExtractRejection(message)]
     ELSE IF Classification(message) = "warning"
          THEN [W EXCEPT !.sub[s].orderWarning = execExtractWarning(message)]
     ELSE SettleSub(execCleanup([W EXCEPT !.sub[s].resolved = TRUE], s), s,
                    Rejected("error", message))

execStartTracking(W, s, orderId) ==
  LET W1 == [W EXCEPT !.sub[s].pc = "tracking",
                      !.sub[s].orderId = orderId,
                      !.sub[s].lastStatus = InitialStatus("TradeExecutor"),
                      !.sub[s].resolved = FALSE,
                      !.sub[s].orderWarning = Null,
                      !.sub[s].orderRejection = Null,
                      !.sub[s].timer = {SubmitTimeoutMs},
                      !.listeners.orderStatus =
                         AddListener(@, SubListener(s, "onOrderStatus")),
                      !.listeners.error =
                         AddListener(@, SubListener(s, "onError"))]
  IN IF W.sub[s].throws
     THEN SettleSub(execCleanup(W1, s), s,
                    Rejected("place", PlaceFailedMessage))
     ELSE placeOrder(W1, s)

\* IBConnection.getNextOrderId
execGetNextOrderId(W, s) ==
  IF ~isConnected(W)
  THEN [world |-> W, rejection |-> {<<"No conectado">>}]
  ELSE [world |->
          [W EXCEPT !.sub[s].idTimer = {IdTimeoutMs},
                    !.listeners.nextValidId =
                       AddListener(@, SubListener(s, "onNextValidId"))],
        rejection |-> {}]

execOnNextValidId(W, s, orderId) ==
  LET W1 == IdCleanup(W, s)
      W2 == [W1 EXCEPT !.hook.nextOrderIdRef = {orderId}]
  IN execStartTracking(W2, s, orderId)

execOnIdTimeout(W, s) ==
  SettleSub(IdCleanup(W, s), s,
            Rejected("preflight", IdTimeoutMessage("TradeExecutor")))

execSubmitOrder(W, s) ==
  LET W0 == [W EXCEPT !.sub[s] = IdleSub]
  IN IF ~isConnected(W0)
     THEN SettleSub(W0, s,
            Rejected("preflight", NotConnectedMessage("TradeExecutor")))
     ELSE
       LET r == execGetNextOrderId(W0, s)
       IN IF r.rejection # {}
          THEN SettleSub(r.world, s,
                 Rejected("preflight", CHOOSE m \in r.rejection : TRUE))
          ELSE [r.world EXCEPT !.sub[s].pc = "allocating"]

\* ------------------------------------------------------------------------
\* useOrders.cancelOrder
\* ------------------------------------------------------------------------

\* a cleanup that clears the timer and leaves the listeners
cancelCleanup_timerOnly(W, c) == [W EXCEPT !.can[c].timer = {}]

cancelCleanup(W, c) ==
  [W EXCEPT !.can[c].timer = {},
            !.listeners.orderStatus =
               RemoveListener(@, CanListener(c, "onOrderStatus")),
            !.listeners.error =
               RemoveListener(@, CanListener(c, "onError"))]

\* a delete that leaves the map as it is
MapDelete_keeps(m, k) == m

\* Map.prototype.delete
MapDelete(m, k) == SelectSeq(m, LAMBDA o : o.orderId # k)

cancelOnOrderStatus(W, c, ev) ==
  LET me == W.can[c]
  IN IF ev.id # me.orderId THEN W
     ELSE IF ev.status = "Cancelled"
     THEN LET W1 == cancelCleanup(W, c)
              W2 == [W1 EXCEPT
                       !.ordersMap = MapDelete(@, me.orderId),
                       !.orders =
                          SelectSeq(@, LAMBDA o : o.orderId # me.orderId)]
          IN SettleCan(W2, c,
               [kind |-> "resolved", by |-> "status",
                orderId |-> me.orderId, status |-> "Cancelled"])
     ELSE W

\* an error handler that takes every error event for its own
cancelOnError_unscoped(W, c, ev) ==
  SettleCan(cancelCleanup(W, c), c,
            Rejected("error",
                     IF ev.message = <<>> THEN <<"Error cancelando orden">>
                     ELSE ev.message))

cancelOnError(W, c, ev) ==
  LET me == W.can[c]
  IN IF ev.id = {me.orderId}
     THEN SettleCan(cancelCleanup(W, c), c,
            Rejected("error",
                     IF ev.message = <<>> THEN <<"Error cancelando orden">>
                     ELSE ev.message))
     ELSE W

\* a timeout that cleans up and forgets to reject
cancelOnTimeout_silent(W, c) ==
  [W EXCEPT !.can[c].timer = {},
            !.listeners.orderStatus =
               RemoveListener(@, CanListener(c, "onOrderStatus")),
            !.listeners.error =
               RemoveListener(@, CanListener(c, "onError"))]

cancelOnTimeout(W, c) ==
  SettleCan(cancelCleanup(W, c), c,
            Rejected("timer", <<"Timeout cancelando orden">>))

cancelOrder(W, c, orderId) ==
  LET W0 == [W EXCEPT !.can[c] = IdleCan, !.can[c].orderId = orderId]
  IN IF ~isConnected(W0)
     THEN SettleCan(W0, c, Rejected("preflight", <<"No conectado">>))
     ELSE sendCancel(
            [W0 EXCEPT !.can[c].pc = "waiting",
                       !.can[c].timer = {CancelTimeoutMs},
                       !.listeners.orderStatus =
                          AddListener(@, CanListener(c, "onOrderStatus")),
                       !.listeners.error =
                          AddListener(@, CanListener(c, "onError"))],
            c)


\* ------------------------------------------------------------------------
\* useOrders: the subscription and refresh
\* ------------------------------------------------------------------------

pendingStatuses == {"PendingSubmit", "PreSubmitted", "Submitted"}

\* v || 0
OrZero(v) == IF v = {} THEN 0 ELSE CHOOSE x \in v : TRUE

\* v || d : an absent value and 0 both give d
OrElse(v, d) == IF v = {} \/ v = {0} THEN d ELSE CHOOSE x \in v : TRUE

\* Map.prototype.has
MapHas(m, k) == \E i \in 1..Len(m) : m[i].orderId = k

\* Map.prototype.get, as a set
MapGet(m, k) == {m[i] : i \in {j \in 1..Len(m) : m[j].orderId = k}}

\* Map.prototype.set: a known key keeps its place, a new key goes last
MapSet(m, rec) ==
  IF MapHas(m, rec.orderId)
  THEN [i \in 1..Len(m) |->
          IF m[i].orderId = rec.orderId THEN rec ELSE m[i]]
  ELSE Append(m, rec)

\* .sort((a, b) => b.lastUpdate - a.lastUpdate): stable, newest first
RECURSIVE SortByLastUpdate(_)
SortByLastUpdate(list) ==
  IF list = <<>> THEN <<>>
  ELSE LET h == Head(list)
           rest == SortByLastUpdate(Tail(list))
           k == Cardinality({i \in 1..Len(rest) :
                               rest[i].lastUpdate > h.lastUpdate})
       IN SubSeq(rest, 1, k) \o <<h>> \o SubSeq(rest, k + 1, Len(rest))

updateOrdersState(W) ==
  [W EXCEPT !.orders =
     SortByLastUpdate(
       SelectSeq(W.ordersMap, LAMBDA o : o.status \in pendingStatuses))]


\* orderState.remaining || order.totalQuantity
RemainingOf(ev) == OrElse(ev.remaining, ev.quantity)

ordersOnOpenOrder(W, ev) ==
  LET orderData == [orderId |-> ev.orderId,
                    quantity |-> ev.quantity,
                    status |-> ev.status,
                    filled |-> OrZero(ev.filled),
                    remaining |-> RemainingOf(ev),
                    avgFillPrice |-> OrZero(ev.avgFillPrice),
                    lastUpdate |-> W.reg.now]
  IN updateOrdersState([W EXCEPT !.ordersMap = MapSet(@, orderData)])

\* a status handler that keeps a record of every order it hears of
ordersOnOrderStatus_adds(W, ev) ==
  LET updated == [orderId |-> ev.id, quantity |-> 0, status |-> ev.status,
                  filled |-> ev.filled, remaining |-> ev.remaining,
                  avgFillPrice |-> ev.avgFillPrice,
                  lastUpdate |-> W.reg.now]
  IN updateOrdersState([W EXCEPT !.ordersMap = MapSet(@, updated)])

ordersOnOrderStatus(W, ev) ==
  IF MapHas(W.ordersMap, ev.id)
  THEN LET existing == CHOOSE o \in MapGet(W.ordersMap, ev.id) : TRUE
           updated == [existing EXCEPT !.status = ev.status,
                                       !.filled = ev.filled,
                                       !.remaining = ev.remaining,
                                       !.avgFillPrice = ev.avgFillPrice,
                                       !.lastUpdate = W.reg.now]
       IN updateOrdersState([W EXCEPT !.ordersMap = MapSet(@, updated)])
  ELSE W

ordersOnOpenOrderEnd(W) == [W EXCEPT !.reg.loading = FALSE]

\* the effect of useOrders, run once the hook sees the connection up
subscribe(W) ==
  IF ~isConnected(W) \/ W.reg.subscribed THEN W
  ELSE [W EXCEPT
          !.reg.subscribed = TRUE,
          !.listeners.openOrder =
             AddListener(@, OrdersListener("onOpenOrder")),
          !.listeners.orderStatus =
             AddListener(@, OrdersListener("onOrderStatus")),
          !.listeners.openOrderEnd =
             AddListener(@, OrdersListener("onOpenOrderEnd")),
          !.reg.loading = TRUE,
          !.reg.requests = @ + 1]

\* the cleanup of that effect
unsubscribe(W) ==
  [W EXCEPT
     !.listeners.openOrder =
        RemoveListener(@, OrdersListener("onOpenOrder")),
     !.listeners.orderStatus =
        RemoveListener(@, OrdersListener("onOrderStatus")),
     !.listeners.openOrderEnd =
        RemoveListener(@, OrdersListener("onOpenOrderEnd")),
     !.reg.subscribed = FALSE]


\* a refresh that asks again and shows no loading
refresh_silent(W) ==
  IF ~isConnected(W) THEN W
  ELSE [W EXCEPT !.ordersMap = <<>>,
                 !.reg.requests = @ + 1,
                 !.reg.refreshed = TRUE]

refresh(W) ==
  IF ~isConnected(W) THEN W
  ELSE [W EXCEPT !.reg.loading = TRUE,
                 !.ordersMap = <<>>,
                 !.reg.requests = @ + 1,
                 !.reg.refreshed = TRUE]

\* ------------------------------------------------------------------------
\* useExecutionHistory: the trade ledger
\* ------------------------------------------------------------------------
\* An execution as it comes from the broker or from a row of the file has
\* an id and an execId, each absent ({}) or <<kind, n>> with kind "string"
\* or "number", a time, absent or a time string (1, 2 in their order), and
\* a price; the price stands for every field that normalizeExec copies as
\* it is.

\* String(id): the digits, whatever the kind
StringOf(raw) == raw[2]

\* e?.id || e?.execId
IdentityOf(e) == IF e.id # {} THEN e.id ELSE e.execId

\* normalizeExec, as a set: empty when the execution has no identity
normalizeExec(e) ==
  {[id |-> StringOf(raw), time |-> e.time, price |-> e.price] :
     raw \in IdentityOf(e)}

\* a.time || ''
TimeKey(n) == OrZero(n.time)

\* the comparator of mergeUniqueById is negative
ExecBefore(a, b) ==
  IF TimeKey(a) # TimeKey(b) THEN TimeKey(a) < TimeKey(b) ELSE a.id < b.id

\* map.set(n.id, n) for every execution of a list that has an identity: a
\* known id keeps its place, a new id goes last
RECURSIVE SetAll(_, _)
SetAll(map, list) ==
  IF list = <<>> THEN map
  ELSE LET n == normalizeExec(Head(list))
           next == IF n = {} THEN map
                   ELSE LET r == CHOOSE x \in n : TRUE
                        IN IF \E i \in 1..Len(map) : map[i].id = r.id
                           THEN [i \in 1..Len(map) |->
                                   IF map[i].id = r.id THEN r ELSE map[i]]
                           ELSE Append(map, r)
       IN SetAll(next, Tail(list))

\* Array.prototype.sort with that comparator: stable
RECURSIVE SortExecs(_)
SortExecs(list) ==
  IF list = <<>> THEN <<>>
  ELSE LET h == Head(list)
           rest == SortExecs(Tail(list))
           k == Cardinality({i \in 1..Len(rest) : ExecBefore(rest[i], h)})
       IN SubSeq(rest, 1, k) \o <<h>> \o SubSeq(rest, k + 1, Len(rest))

\* a merge in which the existing record of an id stays
mergeUniqueById_existingWins(existing, incoming) ==
  SortExecs(SetAll(SetAll(<<>>, incoming), existing))

mergeUniqueById(existing, incoming) ==
  SortExecs(SetAll(SetAll(<<>>, existing), incoming))

\* a normalized record read back as an execution
AsExec(n) == [id |-> {<<"string", n.id>>}, execId |-> {},
              time |-> n.time, price |-> n.price]

AsExecs(list) == [i \in 1..Len(list) |-> AsExec(list[i])]

\* the rows of the file at executionsHistoryPath(account)
LedgerFile(W, account) ==
  IF account = "first" THEN W.ledger.disk ELSE W.ledger.disk2

\* a cancelled read whose result is taken all the same
ledgerStaleLoadDone_applies(W, i) ==
  LET merged == mergeUniqueById(<<>>, LedgerFile(W, W.ledger.stale[i]))
  IN [W EXCEPT !.ledger.allExecutions = merged,
               !.ledger.knownIds = {merged[k].id : k \in 1..Len(merged)},
               !.ledger.loaded = TRUE,
               !.ledger.stale = SubSeq(@, 1, i - 1)
                                  \o SubSeq(@, i + 1, Len(@)),
               !.ledger.staleDone = @ + 1]

\* a read whose effect was cleaned up returns or throws:
\* if (cancelled) return
ledgerStaleLoadDone(W, i) ==
  [W EXCEPT !.ledger.stale = SubSeq(@, 1, i - 1) \o SubSeq(@, i + 1, Len(@)),
            !.ledger.staleDone = @ + 1]

\* the load of the effect has read the file
loadDone(W) ==
  LET merged == mergeUniqueById(<<>>, LedgerFile(W, W.ledger.account))
  IN [W EXCEPT !.ledger.allExecutions = merged,
               !.ledger.knownIds = {merged[i].id : i \in 1..Len(merged)},
               !.ledger.loaded = TRUE]

\* the file could not be read
loadFailed(W) == [W EXCEPT !.ledger.loaded = TRUE]

\* an appendExecution that adds a new execution and writes nothing
appendExecution_noWrite(W, exec) ==
  LET n == normalizeExec(exec)
  IN IF n = {} THEN W
     ELSE LET r == CHOOSE x \in n : TRUE
          IN IF r.id \in W.ledger.knownIds
             THEN [W EXCEPT !.ledger.log =
                      Append(@, [exec |-> r,
                                 ledger |-> W.ledger.allExecutions,
                                 fresh |-> FALSE])]
             ELSE LET merged ==
                        mergeUniqueById(AsExecs(W.ledger.allExecutions),
                                        <<AsExec(r)>>)
                  IN [W EXCEPT !.ledger.knownIds = @ \cup {r.id},
                               !.ledger.allExecutions = merged,
                               !.ledger.log =
                                  Append(@, [exec |-> r, ledger |-> merged,
                                   fresh |-> TRUE])]

\* an appendExecution that merges and writes whatever it is given
appendExecution_always(W, exec) ==
  LET n == normalizeExec(exec)
  IN IF n = {} THEN W
     ELSE LET r == CHOOSE x \in n : TRUE
              merged == mergeUniqueById(AsExecs(W.ledger.allExecutions),
                                        <<AsExec(r)>>)
          IN [W EXCEPT !.ledger.knownIds = @ \cup {r.id},
                       !.ledger.allExecutions = merged,
                       !.ledger.queue = Append(@, r),
                       !.ledger.queueFile = Append(@, W.ledger.account),
                       !.ledger.appendedFor =
                          @ \cup {<<r.id, W.ledger.account>>},
                       !.ledger.log =
                          Append(@, [exec |-> r, ledger |-> merged,
                                   fresh |-> TRUE])]

appendExecution(W, exec) ==
  LET n == normalizeExec(exec)
  IN IF n = {} THEN W
     ELSE LET r == CHOOSE x \in n : TRUE
          IN IF r.id \in W.ledger.knownIds
             THEN [W EXCEPT !.ledger.log =
                      Append(@, [exec |-> r,
                                 ledger |-> W.ledger.allExecutions,
                                 fresh |-> FALSE])]
             ELSE LET merged ==
                        mergeUniqueById(AsExecs(W.ledger.allExecutions),
                                        <<AsExec(r)>>)
                  IN [W EXCEPT !.ledger.knownIds = @ \cup {r.id},
                               !.ledger.allExecutions = merged,
                               !.ledger.queue = Append(@, r),
                               !.ledger.queueFile = Append(@, W.ledger.account),
                               !.ledger.appendedFor =
                                  @ \cup {<<r.id, W.ledger.account>>},
                               !.ledger.log =
                                  Append(@, [exec |-> r, ledger |-> merged,
                                   fresh |-> TRUE])]

\* for (const e of executions || []) appendExecution(e)
RECURSIVE appendAll(_, _)
appendAll(W, list) ==
  IF list = <<>> THEN W
  ELSE appendAll(appendExecution(W, Head(list)), Tail(list))

\* the effect on isConnected, executions and appendExecution
feedEffect(W) ==
  IF ~isConnected(W) THEN W
  ELSE IF ~W.ledger.loaded THEN W
  ELSE appendAll(W, W.ledger.executions)

\* a sequence without its i-th element
Without(seq, i) == SubSeq(seq, 1, i - 1) \o SubSeq(seq, i + 1, Len(seq))

\* a chain whose links all hang on the promise the ref started with
ChainFree_unchained(writing) == TRUE

\* appendQueueRef.current.then(...): the callback of a link runs once the
\* link before it has settled
ChainFree(writing) == writing = <<>>

\* the props change to another account: the load effect is cleaned up and
\* runs again, and the feeding effect runs with the new appendExecution
ledgerAccountChange(W) ==
  feedEffect(
    [W EXCEPT !.ledger.account = IF @ = "first" THEN "second" ELSE "first",
              !.ledger.stale = IF W.ledger.loaded THEN @
                               ELSE Append(@, W.ledger.account),
              !.ledger.loaded = FALSE,
              !.ledger.knownIds = {},
              !.ledger.allExecutions = <<>>,
              !.ledger.switches = @ + 1])

\* the then-callback of the next link calls appendJsonl
writeStart(W) ==
  [W EXCEPT !.ledger.queue = Tail(@),
            !.ledger.writing = Append(@, Head(W.ledger.queue)),
            !.ledger.queueFile = Tail(@),
            !.ledger.writingFile = Append(@, Head(W.ledger.queueFile))]

\* appendJsonl has appended the row
writeDone(W, i) ==
  LET r == W.ledger.writing[i]
      first == W.ledger.writingFile[i] = "first"
  IN [W EXCEPT !.ledger.writing = Without(@, i),
               !.ledger.writingFile = Without(@, i),
               !.ledger.disk = IF first THEN Append(@, AsExec(r)) ELSE @,
               !.ledger.disk2 = IF first THEN @ ELSE Append(@, AsExec(r)),
               !.ledger.written = Append(@, r.id)]

\* a chain without the catch: the rejection runs down the chain and the
\* then-callbacks of the links behind it are skipped
writeFailed_breaksChain(W, i) ==
  [W EXCEPT !.ledger.writing = Without(@, i), !.ledger.queue = <<>>,
            !.ledger.writingFile = Without(@, i),
            !.ledger.queueFile = <<>>]

\* appendJsonl throws; .catch(() => {}) drops the failure
writeFailed(W, i) ==
  [W EXCEPT !.ledger.writing = Without(@, i),
            !.ledger.writingFile = Without(@, i)]

\* ------------------------------------------------------------------------
\* persistedJsonl: the files of an account
\* ------------------------------------------------------------------------
\* An account id is a string, a sequence of characters, or missing ({}:
\* undefined or null).  A path is the sequence of its segments, the file
\* name a sequence of characters after its prefix.

\* the literal 'unknown'
Unknown == <<"u", "n", "k", "n", "o", "w", "n">>

\* the characters of [A-Za-z0-9_-] among those of the account ids
SafeChars == {"U", "1", "_", "-", "u", "n", "k", "o", "w"}

\* String(accountId || 'unknown'): a missing id and the empty string are
\* falsy
OrUnknown(accountId) ==
  IF accountId = {} \/ accountId = {<<>>} THEN Unknown
  ELSE CHOOSE x \in accountId : TRUE

\* .replace(/[^A-Za-z0-9_-]/g, '_')
Sanitized(str) ==
  [i \in 1..Len(str) |-> IF str[i] \in SafeChars THEN str[i] ELSE "_"]

\* path.join(os.homedir(), '.folio')
getBaseDir == <<"~", ".folio">>

portfolioHistoryPath(accountId) ==
  LET safe == Sanitized(OrUnknown(accountId))
  IN Append(getBaseDir, <<"portfolio-history-">> \o safe \o <<".jsonl">>)

executionsHistoryPath(accountId) ==
  LET safe == Sanitized(OrUnknown(accountId))
  IN Append(getBaseDir, <<"executions-">> \o safe \o <<".jsonl">>)

\* ------------------------------------------------------------------------
\* usePortfolioHistory: the portfolio history
\* ------------------------------------------------------------------------
\* A point as it comes from a row of the file has a ts and a
\* netLiquidation, each a number or absent ({}: missing or not a finite
\* number).  cash is copied as it is and left out.  A normalized point has
\* both as numbers.

MinIntervalMs == 300000
SeedOffsetMs == 60000
MinThreshold == 50

\* the in-memory cap, 50_000 in the source, scaled down
MaxHistory == 3

\* normalizePoint, as a set: empty when ts or netLiquidation is not finite
normalizePoint(p) ==
  {[ts |-> t, netLiquidation |-> v] : t \in p.ts, v \in p.netLiquidation}

\* a normalized point as an argument or as a row of the file
AsPoint(n) == [ts |-> {n.ts}, netLiquidation |-> {n.netLiquidation}]

\* map.set(n.ts, n) for every point of a list that normalizes
RECURSIVE SetAllPoints(_, _)
SetAllPoints(map, points) ==
  IF points = <<>> THEN map
  ELSE LET n == normalizePoint(Head(points))
           next == IF n = {} THEN map
                   ELSE LET r == CHOOSE x \in n : TRUE
                        IN IF \E i \in 1..Len(map) : map[i].ts = r.ts
                           THEN [i \in 1..Len(map) |->
                                   IF map[i].ts = r.ts THEN r ELSE map[i]]
                           ELSE Append(map, r)
       IN SetAllPoints(next, Tail(points))

\* .sort((a, b) => a.ts - b.ts): stable
RECURSIVE SortByTs(_)
SortByTs(list) ==
  IF list = <<>> THEN <<>>
  ELSE LET h == Head(list)
           rest == SortByTs(Tail(list))
           k == Cardinality({i \in 1..Len(rest) : rest[i].ts < h.ts})
       IN SubSeq(rest, 1, k) \o <<h>> \o SubSeq(rest, k + 1, Len(rest))

dedupeAndSort(points) == SortByTs(SetAllPoints(<<>>, points))

\* next.splice(0, next.length - 50_000) when next is longer than the cap
Capped(next) ==
  IF Len(next) > MaxHistory
  THEN SubSeq(next, Len(next) - MaxHistory + 1, Len(next))
  ELSE next

\* the updater appendPoint passes to setHistory
appendUpdater(prev, normalized) ==
  IF prev # <<>> /\ prev[Len(prev)].ts = normalized.ts THEN prev
  ELSE Capped(Append(prev, normalized))

\* appendPoint without the state update: the write chained on the queue
enqueuePoint(W, normalized) ==
  [W EXCEPT !.port.calls = @ + 1,
            !.port.queueFile = Append(@, W.port.account),
            !.port.queue =
               Append(@, [ts |-> normalized.ts,
                          netLiquidation |-> normalized.netLiquidation,
                          n |-> W.port.calls + 1])]

appendPoint(W, point) ==
  LET n == normalizePoint(point)
  IN IF n = {} THEN W
     ELSE LET normalized == CHOOSE x \in n : TRUE
          IN enqueuePoint(
               [W EXCEPT !.port.history = appendUpdater(@, normalized)],
               normalized)

\* the two accounts of a session
Accounts == {"first", "second"}

OtherAccount(a) == IF a = "first" THEN "second" ELSE "first"

\* the rows of the file at portfolioHistoryPath(account)
PortFile(W, account) ==
  IF account = "first" THEN W.port.disk ELSE W.port.disk2

\* the load of the effect has read the file
portLoadDone(W) ==
  LET rows == PortFile(W, W.port.account)
  IN [W EXCEPT !.port.history =
                  dedupeAndSort([i \in 1..Len(rows) |->
                                   [ts |-> rows[i].ts,
                                    netLiquidation |->
                                       rows[i].netLiquidation]]),
               !.port.loaded = TRUE]

\* a read whose effect was cleaned up returns or throws:
\* if (cancelled) return
portStaleLoadDone(W, i) == [W EXCEPT !.port.stale = Without(@, i)]

\* the file could not be read
portLoadFailed(W) == [W EXCEPT !.port.loaded = TRUE]

\* Number.isFinite(netLiquidation) && netLiquidation > 0
Recordable(netLiquidation) == \E v \in netLiquidation : v > 0

Abs(x) == IF x < 0 THEN 0 - x ELSE x

\* dt < MIN_INTERVAL_MS && Math.abs(dNet) < threshold, with threshold =
\* Math.max(50, Math.abs(last.netLiquidation) * 0.001), in thousandths
Throttled(last, now, netLiquidation) ==
  /\ now - last.ts < MinIntervalMs
  /\ Abs(netLiquidation - last.netLiquidation) * 1000
       < IF MinThreshold * 1000 > Abs(last.netLiquidation)
         THEN MinThreshold * 1000 ELSE Abs(last.netLiquidation)

\* the effect that records points while connected
recordEffect(W) ==
  IF ~isConnected(W) THEN W
  ELSE IF ~Recordable(W.port.netLiquidation) THEN W
  ELSE IF ~W.port.loaded THEN W
  ELSE LET v == CHOOSE x \in W.port.netLiquidation : TRUE
           nextPoint == [ts |-> W.port.now, netLiquidation |-> v]
       IN IF \E last \in W.port.lastAppend :
               Throttled(last, W.port.now, v)
          THEN W
          ELSE appendPoint([W EXCEPT !.port.lastAppend = {nextPoint}],
                           AsPoint(nextPoint))

\* a seedIfEmpty that returns the history it was given
seedIfEmpty_idle(W, eager) == [W EXCEPT !.port.seeded = "idle"]

\* seedIfEmpty.  Its updater calls appendPoint, whose own state updates
\* React applies before the updater's result takes over (eager: the hook
\* had no update pending, the result was computed at the call) or after it
\* (the updater ran while rendering).
seedIfEmpty(W, eager) ==
  IF ~Recordable(W.port.netLiquidation) THEN [W EXCEPT !.port.seeded = "idle"]
  ELSE IF ~W.port.loaded THEN [W EXCEPT !.port.seeded = "idle"]
  ELSE LET prev == W.port.history
           v == CHOOSE x \in W.port.netLiquidation : TRUE
           now == W.port.now
           point == [ts |-> now, netLiquidation |-> v]
           first == IF Len(prev) = 0
                    THEN [point EXCEPT !.ts = now - SeedOffsetMs]
                    ELSE [prev[1] EXCEPT !.ts =
                            IF @ < now - SeedOffsetMs THEN @
                            ELSE now - SeedOffsetMs]
           seeded == <<first, point>>
       IN IF Len(prev) >= 2 THEN [W EXCEPT !.port.seeded = "idle"]
          ELSE LET W1 == enqueuePoint(
                           enqueuePoint(
                             [W EXCEPT !.port.lastAppend = {point},
                                       !.port.seeded = "seeded"],
                             first),
                           point)
               IN [W1 EXCEPT !.port.history =
                     IF eager THEN seeded
                     ELSE appendUpdater(appendUpdater(seeded, first),
                                        point)]

\* the props change to another account: the load effect is cleaned up and
\* runs again, and the recording effect runs with the new appendPoint
portAccountChange(W) ==
  recordEffect(
    [W EXCEPT !.port.account = OtherAccount(@),
              !.port.stale = IF W.port.loaded THEN @
                             ELSE Append(@, W.port.account),
              !.port.loaded = FALSE,
              !.port.history = <<>>,
              !.port.switches = @ + 1,
              !.port.callsAtSwitch = W.port.calls])

\* the then-callback of the next link calls appendJsonl
portWriteStart(W) ==
  [W EXCEPT !.port.queue = Tail(@),
            !.port.writing = Append(@, Head(W.port.queue)),
            !.port.queueFile = Tail(@),
            !.port.writingFile = Append(@, Head(W.port.queueFile))]

\* appendJsonl has appended the row
portWriteDone(W, i) ==
  LET row == [ts |-> {W.port.writing[i].ts},
              netLiquidation |-> {W.port.writing[i].netLiquidation},
              n |-> W.port.writing[i].n]
      first == W.port.writingFile[i] = "first"
  IN [W EXCEPT !.port.writing = Without(@, i),
               !.port.writingFile = Without(@, i),
               !.port.disk = IF first THEN Append(@, row) ELSE @,
               !.port.disk2 = IF first THEN @ ELSE Append(@, row)]

\* appendJsonl throws; .catch(() => {}) drops the failure
portWriteFailed(W, i) ==
  [W EXCEPT !.port.writing = Without(@, i),
            !.port.writingFile = Without(@, i)]

\* ------------------------------------------------------------------------
\* The connection layer's own listeners
\* ------------------------------------------------------------------------

\* code && (INFO_CODES.has(code) || IGNORED_CODES.has(code))
ConnIgnoresCode(ev) ==
  \E code \in ev.code :
     code # 0 /\ (code \in INFO_CODES \/ code \in IGNORED_CODES)

\* client.on('error', ...) of useIBConnection / IBConnection.connect: an
\* ignored code returns at once; of the other messages only ECONNREFUSED
\* and ETIMEDOUT, which the broker stream of this model does not carry,
\* change the status
connOnError(W, ev) == IF ConnIgnoresCode(ev) THEN W ELSE W

\* client.on('nextValidId', ...) of useIBConnection stays registered;
\* client.once('nextValidId', ...) of IBConnection.connect runs once
connOnNextValidId(W) ==
  IF W.app = "useTrade"
  THEN [W EXCEPT !.conn = "connected"]
  ELSE [W EXCEPT !.conn = "connected",
                 !.listeners.nextValidId =
                    RemoveListener(@, ConnListener("onNextValidId"))]

\* client.on('disconnected', ...)
connOnDisconnected(W) == [W EXCEPT !.conn = "disconnected"]

\* ------------------------------------------------------------------------
\* EventEmitter.emit: every listener registered when the emit starts is
\* called, in registration order
\* ------------------------------------------------------------------------

Invoke(W, l, ev) ==
  CASE l.op = "conn" /\ l.fn = "onNextValidId" -> connOnNextValidId(W)
    [] l.op = "conn" /\ l.fn = "onError" -> connOnError(W, ev)
    [] l.op = "sub" /\ l.fn = "onNextValidId" ->
         IF W.app = "useTrade" THEN onNextValidId(W, l.slot, ev)
         ELSE execOnNextValidId(W, l.slot, ev)
    [] l.op = "sub" /\ l.fn = "onOrderStatus" ->
         IF W.app = "useTrade" THEN onOrderStatus(W, l.slot, ev)
         ELSE execOnOrderStatus(W, l.slot, ev)
    [] l.op = "sub" /\ l.fn = "onError" ->
         IF W.app = "useTrade" THEN onError(W, l.slot, ev)
         ELSE execOnError(W, l.slot, ev)
    [] l.op = "can" /\ l.fn = "onOrderStatus" ->
         cancelOnOrderStatus(W, l.slot, ev)
    [] l.op = "can" /\ l.fn = "onError" -> cancelOnError(W, l.slot, ev)
    [] l.op = "orders" /\ l.fn = "onOpenOrder" -> ordersOnOpenOrder(W, ev)
    [] l.op = "orders" /\ l.fn = "onOrderStatus" ->
         ordersOnOrderStatus(W, ev)
    [] l.op = "orders" /\ l.fn = "onOpenOrderEnd" -> ordersOnOpenOrderEnd(W)

RECURSIVE Dispatch(_, _, _)
Dispatch(W, ls, ev) ==
  IF ls = <<>> THEN W
  ELSE Dispatch(Invoke(W, Head(ls), ev), Tail(ls), ev)

Emit(W, name, ev) == Dispatch(W, W.listeners[name], ev)

\* ------------------------------------------------------------------------
\* Timers
\* ------------------------------------------------------------------------

ArmedTimers ==
  UNION ({sub[s].idTimer : s \in Subs} \cup {sub[s].timer : s \in Subs}
           \cup {can[c].timer : c \in Cans})

Elapse(timer, ms) == {t - ms : t \in timer}

\* the closure of the slot's previous call is gone: nothing of it is armed
\* or registered
SubIsFree(s) ==
  /\ sub[s].pc \in {"idle", "done"}
  /\ sub[s].idTimer = {} /\ sub[s].timer = {}
  /\ \A name \in DOMAIN listeners : \A i \in 1..Len(listeners[name]) :
        ~(listeners[name][i].op = "sub" /\ listeners[name][i].slot = s)

CanIsFree(c) ==
  /\ can[c].pc \in {"idle", "done"}
  /\ can[c].timer = {}
  /\ \A name \in DOMAIN listeners : \A i \in 1..Len(listeners[name]) :
        ~(listeners[name][i].op = "can" /\ listeners[name][i].slot = c)

\* ------------------------------------------------------------------------
\* Initial state and actions
\* ------------------------------------------------------------------------

\* The client after connect(): the connection layer's error and nextValidId
\* listeners are registered.  The subscription of useOrders (openOrder,
\* orderStatus, openOrderEnd) belongs to no operation and never settles a
\* promise; it is not among the listeners counted here.
Init ==
  /\ app \in Apps
  /\ conn = "connecting"
  /\ listeners = NewClient
  /\ sub = [s \in Subs |-> IdleSub]
  /\ can = [c \in Cans |-> IdleCan]
  /\ hook = [loading |-> FALSE, error |-> {}, orderStatus |-> {},
             nextOrderIdRef |-> {}]
  /\ ordersMap = <<>>
  /\ orders = <<>>
  /\ reg = IdleReg
  /\ ledger = IdleLedger
  /\ port = IdlePort
  /\ pure = IdlePure

\* the caller submits an order
CallSubmit(s) ==
  /\ SubIsFree(s)
  /\ Becomes(IF app = "useTrade" THEN submitOrder(World, s)
             ELSE execSubmitOrder(World, s))

\* the caller submits an order that the client will refuse to place:
\* client.placeOrder throws
CallSubmitFailing(s) ==
  /\ SubIsFree(s)
  /\ Becomes([(IF app = "useTrade" THEN submitOrder(World, s)
               ELSE execSubmitOrder(World, s))
                EXCEPT !.sub[s].throws = TRUE])

\* the user cancels an order (terminal UI only)
CallCancel(c, orderId) ==
  /\ app = "useTrade"
  /\ CanIsFree(c)
  /\ Becomes(cancelOrder(World, c, orderId))

\* the broker sends a next-valid-id
BrokerNextValidId(orderId) ==
  /\ conn # "disconnected"
  /\ Becomes(Emit(World, "nextValidId", orderId))

\* no pattern of the classifier knows the message
Unclassified(message) ==
  /\ ~isIgnorableMessage(message)
  /\ extractRejection(message) = Null
  /\ extractWarning(message) = Null

\* history of the status events, taken from the state before the event
ObserveStatus(W, ev) ==
  [W EXCEPT !.sub = [s \in Subs |->
     LET own == sub[s].placed /\ sub[s].orderId = ev.id
     IN [W.sub[s] EXCEPT
          !.terminalSeen =
             IF /\ own
                /\ ev.status \in {"Filled", "Cancelled", "Inactive"}
                /\ @ = {}
                /\ (sub[s].outcome = Pending \/ sub[s].outcome.by # "timer")
             THEN {ev.status} ELSE @,
          !.resolverSeen =
             IF /\ own
                /\ sub[s].pc = "tracking"
                /\ ev.status \in {"Filled", "Cancelled", "Inactive",
                                  "Submitted", "PreSubmitted"}
                /\ @ = {}
             THEN {[status |-> ev.status, filled |-> ev.filled,
                    avgFillPrice |-> ev.avgFillPrice,
                    warning |-> sub[s].orderWarning]}
             ELSE @]],
            !.can = [c \in Cans |->
     [W.can[c] EXCEPT
        !.confirmSeen =
           @ \/ (/\ can[c].pc = "waiting"
                 /\ ev.id = can[c].orderId
                 /\ ev.status = "Cancelled")]]]

\* history of the error events, taken from the state before the event
ObserveError(W, ev) ==
  [W EXCEPT !.sub = [s \in Subs |->
     IF /\ sub[s].pc = "tracking"
        /\ ev.id \in {{}, {-1}, {sub[s].orderId}}
        /\ Unclassified(ev.message)
        /\ sub[s].fatalSeen = {}
     THEN [W.sub[s] EXCEPT !.fatalSeen =
             {IF ev.message = <<>> THEN DefaultMessage(app)
              ELSE ev.message}]
     ELSE W.sub[s]],
            !.can = [c \in Cans |->
     IF /\ can[c].pc = "waiting"
        /\ ev.id = {can[c].orderId}
        /\ can[c].errorSeen = {}
     THEN [W.can[c] EXCEPT !.errorSeen =
             {IF ev.message = <<>> THEN <<"Error cancelando orden">>
              ELSE ev.message}]
     ELSE W.can[c]]]

\* the broker sends an order status
BrokerOrderStatus(ev) ==
  /\ conn = "connected"
  /\ Becomes(ObserveStatus(Emit(World, "orderStatus", ev), ev))

\* the broker sends an error or informational message
BrokerError(ev) ==
  /\ conn = "connected"
  /\ Becomes(ObserveError(Emit(World, "error", ev), ev))

\* the socket closes
Disconnected ==
  /\ conn # "disconnected"
  /\ Becomes(connOnDisconnected(World))

IdTimerFires(s) ==
  /\ sub[s].idTimer = {0}
  /\ Becomes(IF app = "useTrade" THEN onIdTimeout(World, s)
             ELSE execOnIdTimeout(World, s))

SubmitTimerFires(s) ==
  /\ sub[s].timer = {0}
  /\ Becomes(IF app = "useTrade" THEN onTimeout(World, s)
             ELSE execOnTimeout(World, s))

CancelTimerFires(c) ==
  /\ can[c].timer = {0}
  /\ Becomes(cancelOnTimeout(World, c))

\* time passes until the next timer is due; a timer that is due fires
\* before more time passes
Tick ==
  /\ ArmedTimers # {}
  /\ 0 \notin ArmedTimers
  /\ LET ms == Min(ArmedTimers)
     IN /\ sub' = [s \in Subs |->
                     [sub[s] EXCEPT !.idTimer = Elapse(@, ms),
                                    !.timer = Elapse(@, ms)]]
        /\ can' = [c \in Cans |-> [can[c] EXCEPT !.timer = Elapse(@, ms)]]
  /\ UNCHANGED <<app, conn, listeners, hook, ordersMap, orders, reg, ledger, port,
                 pure>>

\* one submission at a time, cancels alongside, every broker event
Next ==
  \/ \E s \in Solo : CallSubmit(s)
  \/ \E c \in Cans, i \in OrderIds : CallCancel(c, i)
  \/ \E i \in OrderIds : BrokerNextValidId(i)
  \/ \E ev \in StatusEvents : BrokerOrderStatus(ev)
  \/ \E ev \in ErrorEvents : BrokerError(ev)
  \/ Disconnected
  \/ \E s \in Solo : IdTimerFires(s)
  \/ \E s \in Solo : SubmitTimerFires(s)
  \/ \E c \in Cans : CancelTimerFires(c)
  \/ Tick

Spec == Init /\ [][Next]_vars

\* a timer that is due fires, and time does not stop
Fairness ==
  /\ WF_vars(Tick)
  /\ \A s \in Solo : WF_vars(IdTimerFires(s))
  /\ \A s \in Solo : WF_vars(SubmitTimerFires(s))
  /\ \A c \in Cans : WF_vars(CancelTimerFires(c))

FairSpec == Spec /\ Fairness

\* the events of the overlapping submissions: one status that does not
\* resolve, one accepted and one terminal; one rejection, one warning and
\* one unclassified message, each scoped to an order or to none
OverlapStatusEvents ==
  {ev \in StatusEvents : ev.status \in {"PendingSubmit", "Submitted",
                                        "Inactive"}}

OverlapErrorEvents ==
  {ev \in ErrorEvents :
     /\ ev.code = {}
     /\ ev.id # {}
     /\ ev.message \in
          { <<"Insufficient funds">>,
            <<"w", "will not be sent to the market until",
              "2025-01-02 09:30:00">>,
            <<"w">> }}

\* two submissions that may overlap
NextOverlap ==
  \/ \E s \in Subs : CallSubmit(s)
  \/ \E i \in OrderIds : BrokerNextValidId(i)
  \/ \E ev \in OverlapStatusEvents : BrokerOrderStatus(ev)
  \/ \E ev \in OverlapErrorEvents : BrokerError(ev)
  \/ Disconnected
  \/ \E s \in Subs : IdTimerFires(s)
  \/ \E s \in Subs : SubmitTimerFires(s)
  \/ Tick

OverlapSpec == Init /\ [][NextOverlap]_vars

\* the events of the operations in flight side by side: a status that
\* does not resolve and the confirmation of a cancel; a rejection and an
\* unclassified message, each scoped to an order
ScopeStatusEvents ==
  {ev \in StatusEvents : ev.status \in {"PendingSubmit", "Cancelled"}}

ScopeErrorEvents ==
  {ev \in ErrorEvents :
     /\ ev.code = {}
     /\ ev.id \in {{i} : i \in OrderIds}
     /\ ev.message \in {<<"Insufficient funds">>, <<"w">>}}

\* two submissions and a cancel that may overlap, before any timer is due
NextScope ==
  \/ \E s \in Subs : CallSubmit(s)
  \/ \E c \in Cans, i \in OrderIds : CallCancel(c, i)
  \/ \E i \in OrderIds : BrokerNextValidId(i)
  \/ \E ev \in ScopeStatusEvents : BrokerOrderStatus(ev)
  \/ \E ev \in ScopeErrorEvents : BrokerError(ev)

ScopeSpec == Init /\ [][NextScope]_vars

\* one submission at a time whose placeOrder may throw, the statuses and
\* messages of ScopeSpec, and the timers
NextPlace ==
  \/ \E s \in Solo : CallSubmit(s)
  \/ \E s \in Solo : CallSubmitFailing(s)
  \/ \E i \in OrderIds : BrokerNextValidId(i)
  \/ \E ev \in ScopeStatusEvents : BrokerOrderStatus(ev)
  \/ \E ev \in ScopeErrorEvents : BrokerError(ev)
  \/ Disconnected
  \/ \E s \in Solo : IdTimerFires(s)
  \/ \E s \in Solo : SubmitTimerFires(s)
  \/ Tick

PlaceSpec == Init /\ [][NextPlace]_vars

\* ------------------------------------------------------------------------
\* The message classifier on its own
\* ------------------------------------------------------------------------

\* longest message of classification tokens
MaxTokens == 3
\* longest text after a rejection pattern
MaxBody == 5

SeqsUpTo(S, n) == UNION {[1..k -> S] : k \in 0..n}

\* texts the tables look for, the benign text, a date-time, a plain word
ClassifierMessages ==
  SeqsUpTo({"TIF", "Insufficient funds", "Order rejected. Reason:",
            "order is being held", "will not be sent to the market until",
            "2025-01-02 09:30:00", "w"}, MaxTokens)

\* a rejection followed by words, white space and pieces of line-break
\* tags in any arrangement
TaggedMessages ==
  {<<p>> \o b :
     p \in {"Order rejected. Reason:", "Insufficient funds"},
     b \in SeqsUpTo({"w", " ", "NL", "<br", "<BR", "/", ">"}, MaxBody)}

\* the variables of the order tracker, at rest
AtRest ==
  /\ app = "useTrade"
  /\ conn = "connecting"
  /\ listeners = NewClient
  /\ sub = [s \in Subs |-> IdleSub]
  /\ can = [c \in Cans |-> IdleCan]
  /\ hook = [loading |-> FALSE, error |-> {}, orderStatus |-> {},
             nextOrderIdRef |-> {}]
  /\ ordersMap = <<>>
  /\ orders = <<>>

ClassifierInit ==
  /\ AtRest
  /\ ledger = IdleLedger
  /\ port = IdlePort
  /\ reg = IdleReg
  /\ pure \in {[fn |-> "classify", message |-> m, result |-> {}] :
                 m \in ClassifierMessages \cup TaggedMessages}

\* onError's message, classified as onError classifies it, with what the
\* two extractors of each front end return for it
Classify ==
  /\ pure.fn = "classify"
  /\ pure.result = {}
  /\ LET message == IF pure.message = <<>> THEN DefaultMessage("useTrade")
                    ELSE pure.message
     IN pure' = [pure EXCEPT !.result =
                   {[class |-> Classification(message),
                     rejection |-> extractRejection(message),
                     warning |-> extractWarning(message),
                     execRejection |-> execExtractRejection(message),
                     execWarning |-> execExtractWarning(message)]}]
  /\ UNCHANGED <<app, conn, listeners, sub, can, hook, ordersMap, orders,
                 reg, ledger, port>>

ClassifierNext == Classify

ClassifierSpec == ClassifierInit /\ [][ClassifierNext]_vars

\* ------------------------------------------------------------------------
\* The open orders registry (useOrders) and the broker's orders
\* ------------------------------------------------------------------------

\* latest reading of the clock
MaxNow == 1
\* open-order requests the broker has not answered yet
MaxRequests == 2

\* shares of every order of the broker's book
OrderQuantity == 10

AvgPriceOf(filled) == IF filled = 0 THEN 0 ELSE 150

\* what the broker may report next for an order: a partial fill, the fill
\* or the cancellation
BookTargets(entry) ==
  IF entry.status \in pendingStatuses
  THEN {[status |-> "Submitted", filled |-> 3] :
           f \in {0} \cap {entry.filled}}
         \cup {[status |-> "Filled", filled |-> OrderQuantity],
               [status |-> "Cancelled", filled |-> entry.filled]}
  ELSE {}

\* the arguments of an openOrder event for an order of the book; the order
\* state carries filled and remaining (full), or does not
OpenOrderEvent(id, entry, full) ==
  [orderId |-> id, quantity |-> OrderQuantity, status |-> entry.status,
   filled |-> IF full THEN {entry.filled} ELSE {},
   remaining |-> IF full THEN {OrderQuantity - entry.filled} ELSE {},
   avgFillPrice |-> IF full THEN {AvgPriceOf(entry.filled)} ELSE {}]

\* the arguments of an orderStatus event for an order of the book
StatusEventOf(id, entry) ==
  [id |-> id, status |-> entry.status, filled |-> entry.filled,
   remaining |-> OrderQuantity - entry.filled,
   avgFillPrice |-> AvgPriceOf(entry.filled)]

\* ids of the book's open orders, ascending
RECURSIVE Ascending(_)
Ascending(S) ==
  IF S = {} THEN <<>> ELSE <<Min(S)>> \o Ascending(S \ {Min(S)})

OpenIds(book) == {i \in DOMAIN book : book[i].status \in pendingStatuses}

RegistryInit ==
  /\ AtRest
  /\ ledger = IdleLedger
  /\ port = IdlePort
  /\ pure = IdlePure
  /\ \E b \in [OrderIds -> {NoOrder,
                             [status |-> "PreSubmitted", filled |-> 0],
                             [status |-> "Submitted", filled |-> 0]}],
        full \in BOOLEAN :
        /\ b[1] # NoOrder
        /\ b[1].status = "Submitted" <=> b[2] = NoOrder
        /\ reg = [IdleReg EXCEPT !.book = b, !.full = full]

\* React runs the effect of useOrders after the connection came up
Subscribe ==
  /\ conn = "connected"
  /\ ~reg.subscribed
  /\ reg.requests < MaxRequests
  /\ Becomes(subscribe(World))

\* and its cleanup after the connection went down
Unsubscribe ==
  /\ conn # "connected"
  /\ reg.subscribed
  /\ Becomes(unsubscribe(World))

\* the user asks for a refresh
CallRefresh ==
  /\ reg.requests < MaxRequests
  /\ Becomes(refresh(World))

\* connect() after a disconnect: a new client with the connection layer's
\* listeners; what was asked of the old socket is gone
Reconnect ==
  /\ conn = "disconnected"
  /\ ~reg.subscribed
  /\ conn' = "connecting"
  /\ listeners' = NewClient
  /\ reg' = [reg EXCEPT !.requests = 0, !.streaming = FALSE,
                         !.stream = <<>>, !.refreshed = FALSE]
  /\ UNCHANGED <<app, sub, can, hook, ordersMap, orders, ledger, port, pure>>

\* the broker starts to answer an open-orders request
BrokerServe ==
  /\ conn = "connected"
  /\ reg.requests > 0
  /\ ~reg.streaming
  /\ reg' = [reg EXCEPT !.requests = @ - 1, !.streaming = TRUE,
                         !.stream = Ascending(OpenIds(reg.book))]
  /\ UNCHANGED <<app, conn, listeners, sub, can, hook, ordersMap, orders,
                 ledger, port, pure>>

\* the next order of the snapshot
BrokerSnapshotOrder ==
  /\ conn = "connected"
  /\ reg.streaming
  /\ reg.stream # <<>>
  /\ LET id == Head(reg.stream)
     IN Becomes(Emit([World EXCEPT !.reg.stream = Tail(@)], "openOrder",
                     OpenOrderEvent(id, reg.book[id], reg.full)))

\* the end marker of the snapshot
BrokerSnapshotEnd ==
  /\ conn = "connected"
  /\ reg.streaming
  /\ reg.stream = <<>>
  /\ Becomes(Emit([World EXCEPT !.reg.streaming = FALSE], "openOrderEnd",
                  <<>>))

\* an openOrder event the broker sends on its own for an order it has
BrokerOpenOrder(id) ==
  /\ conn = "connected"
  /\ reg.book[id] # NoOrder
  /\ Becomes(Emit(World, "openOrder",
                  OpenOrderEvent(id, reg.book[id], reg.full)))

\* the order changes at the broker, which reports it
BrokerDelta(id, target) ==
  /\ conn = "connected"
  /\ target \in BookTargets(reg.book[id])
  /\ LET ev == StatusEventOf(id, target)
     IN Becomes(ObserveStatus(
                  Emit([World EXCEPT !.reg.book[id] = target],
                       "orderStatus", ev), ev))

\* Date.now() moves on
ClockTick ==
  /\ reg.now < MaxNow
  /\ reg' = [reg EXCEPT !.now = @ + 1]
  /\ UNCHANGED <<app, conn, listeners, sub, can, hook, ordersMap, orders,
                 ledger, port, pure>>

\* error events with and without a text, scoped to an order or to none
RegistryNext ==
  \/ \E i \in {1} : BrokerNextValidId(i)
  \/ Subscribe
  \/ Unsubscribe
  \/ CallRefresh
  \/ BrokerServe
  \/ BrokerSnapshotOrder
  \/ BrokerSnapshotEnd
  \/ \E i \in OrderIds : BrokerOpenOrder(i)
  \/ \E i \in OrderIds :
       \E target \in BookTargets(reg.book[i]) : BrokerDelta(i, target)
  \/ Disconnected
  \/ Reconnect
  \/ ClockTick

RegistrySpec == RegistryInit /\ [][RegistryNext]_vars

\* ------------------------------------------------------------------------
\* The registry with cancels: cancelOrder beside the subscription of
\* useOrders, the broker's status and error events, the cancel timer
\* ------------------------------------------------------------------------

\* error events as a cancel sees them: with and without an order id, with
\* and without a message
RegistryErrorEvents ==
  {ev \in ErrorEvents :
     /\ ev.code = {}
     /\ ev.id # {-1}
     /\ ev.message \in {<<>>, <<"Insufficient funds">>}}

CancelNext ==
  \/ \E i \in {1} : BrokerNextValidId(i)
  \/ Subscribe
  \/ CallRefresh
  \/ \E i \in OrderIds : BrokerOpenOrder(i)
  \/ \E i \in OrderIds :
       \E target \in BookTargets(reg.book[i]) : BrokerDelta(i, target)
  \/ \E c \in Cans, i \in OrderIds : CallCancel(c, i)
  \/ \E ev \in RegistryErrorEvents : BrokerError(ev)
  \/ \E c \in Cans : CancelTimerFires(c)
  \/ Tick
  \/ Disconnected

CancelSpec == RegistryInit /\ [][CancelNext]_vars

\* the registry with its snapshots and with cancels of order 1, at one
\* time of the clock, up to the loss of the connection
LoadingNext ==
  \/ \E i \in {1} : BrokerNextValidId(i)
  \/ Subscribe
  \/ CallRefresh
  \/ BrokerServe
  \/ BrokerSnapshotOrder
  \/ BrokerSnapshotEnd
  \/ \E i \in OrderIds :
       \E target \in BookTargets(reg.book[i]) : BrokerDelta(i, target)
  \/ \E c \in Cans, i \in {1} : CallCancel(c, i)
  \/ \E c \in Cans : CancelTimerFires(c)
  \/ Tick
  \/ Disconnected

LoadingSpec == RegistryInit /\ [][LoadingNext]_vars

\* ------------------------------------------------------------------------
\* mergeUniqueById over every pair of short lists
\* ------------------------------------------------------------------------

MaxList == 2

\* executions with a string id, a numeric id, an execId only, no identity;
\* with and without a time; the first at two prices
Identities ==
  {[id |-> {<<"string", 1>>}, execId |-> {}],
   [id |-> {<<"number", 1>>}, execId |-> {}],
   [id |-> {<<"string", 2>>}, execId |-> {<<"string", 1>>}],
   [id |-> {}, execId |-> {<<"string", 2>>}],
   [id |-> {}, execId |-> {}]}

Executions ==
  {[id |-> x.id, execId |-> x.execId, time |-> t, price |-> 10] :
     x \in Identities, t \in {{}, {1}}}
  \cup {[id |-> {<<"string", 1>>}, execId |-> {}, time |-> t, price |-> 11] :
          t \in {{}, {1}}}

MergeInit ==
  /\ AtRest
  /\ reg = IdleReg
  /\ ledger = IdleLedger
  /\ port = IdlePort
  /\ pure \in {[fn |-> "merge", A |-> a, B |-> b, result |-> {}] :
                 a \in SeqsUpTo(Executions, MaxList),
                 b \in SeqsUpTo(Executions, MaxList)}

\* mergeUniqueById(A, B), and the merges of its result and of A with
\* themselves and with A and B again
Merge ==
  /\ pure.fn = "merge"
  /\ pure.result = {}
  /\ LET R == mergeUniqueById(pure.A, pure.B)
     IN pure' = [pure EXCEPT !.result =
                   {[merged |-> R,
                     alone |-> mergeUniqueById(pure.A, <<>>),
                     self |-> mergeUniqueById(pure.A, pure.A),
                     again |-> mergeUniqueById(AsExecs(R), AsExecs(R)),
                     withA |-> mergeUniqueById(AsExecs(R), pure.A),
                     withB |-> mergeUniqueById(AsExecs(R), pure.B)]}]
  /\ UNCHANGED <<app, conn, listeners, sub, can, hook, ordersMap, orders,
                 reg, ledger, port>>

MergeNext == Merge

MergeSpec == MergeInit /\ [][MergeNext]_vars

\* ------------------------------------------------------------------------
\* The files of two accounts
\* ------------------------------------------------------------------------

MaxIdLen == 2

\* characters of account ids: a letter, a digit, the two marks the
\* sanitizer keeps, and two it replaces
IdChars == {"U", "1", "_", "-", ".", " "}

\* the account ids: short strings that are not empty, the string
\* 'unknown', and none
AccountIds ==
  {{str} : str \in (SeqsUpTo(IdChars, MaxIdLen) \ {<<>>}) \cup {Unknown}}
    \cup {{}}

PathInit ==
  /\ AtRest
  /\ ledger = IdleLedger
  /\ port = IdlePort
  /\ reg = IdleReg
  /\ pure \in {[fn |-> "path", a |-> a, b |-> b, result |-> {}] :
                 a \in AccountIds, b \in AccountIds}

\* the two files of each of the two accounts
Paths ==
  /\ pure.fn = "path"
  /\ pure.result = {}
  /\ pure' = [pure EXCEPT !.result =
                {[portfolioA |-> portfolioHistoryPath(pure.a),
                  portfolioB |-> portfolioHistoryPath(pure.b),
                  executionsA |-> executionsHistoryPath(pure.a),
                  executionsB |-> executionsHistoryPath(pure.b)]}]
  /\ UNCHANGED <<app, conn, listeners, sub, can, hook, ordersMap, orders,
                 reg, ledger, port>>

PathNext == Paths

PathSpec == PathInit /\ [][PathNext]_vars

\* ------------------------------------------------------------------------
\* The ledger of a session: load, the executions the connection reports,
\* the queued writes
\* ------------------------------------------------------------------------

MaxAppends == 3

\* what the file holds when the hook mounts
StoredRows ==
  {[id |-> {<<"string", 1>>}, execId |-> {}, time |-> {1}, price |-> 10],
   [id |-> {<<"string", 1>>}, execId |-> {}, time |-> {1}, price |-> 11]}

\* what the connection reports
ReportedExecutions ==
  {[id |-> {<<"string", 1>>}, execId |-> {}, time |-> {1}, price |-> 10],
   [id |-> {<<"string", 1>>}, execId |-> {}, time |-> {1}, price |-> 11],
   [id |-> {<<"number", 1>>}, execId |-> {}, time |-> {1}, price |-> 10],
   [id |-> {}, execId |-> {<<"string", 2>>}, time |-> {}, price |-> 10],
   [id |-> {}, execId |-> {}, time |-> {1}, price |-> 10]}

LedgerInit ==
  /\ AtRest
  /\ reg = IdleReg
  /\ pure = IdlePure
  /\ \E rows \in SeqsUpTo(StoredRows, MaxList) :
        ledger = [IdleLedger EXCEPT !.disk = rows]
  /\ port = IdlePort

LoadDone ==
  /\ ~ledger.loaded
  /\ Becomes(loadDone(World))

LoadFailed ==
  /\ ~ledger.loaded
  /\ Becomes(loadFailed(World))

\* the connection reports an execution: the prop executions changes and
\* the effect on it runs
ReportExecution(exec) ==
  /\ conn = "connected"
  /\ Len(ledger.log) < MaxAppends
  /\ Becomes(feedEffect([World EXCEPT !.ledger.executions = <<exec>>]))

WriteStart ==
  /\ ledger.queue # <<>>
  /\ ChainFree(ledger.writing)
  /\ Becomes(writeStart(World))

WriteDone(i) ==
  /\ i \in 1..Len(ledger.writing)
  /\ Becomes(writeDone(World, i))

WriteFailed(i) ==
  /\ i \in 1..Len(ledger.writing)
  /\ Becomes(writeFailed(World, i))

LedgerNext ==
  \/ \E i \in {1} : BrokerNextValidId(i)
  \/ LoadDone
  \/ LoadFailed
  \/ \E exec \in ReportedExecutions : ReportExecution(exec)
  \/ WriteStart
  \/ \E i \in 1..MaxAppends : WriteDone(i)
  \/ \E i \in 1..MaxAppends : WriteFailed(i)
  \/ Disconnected

LedgerSpec == LedgerInit /\ [][LedgerNext]_vars

\* the read of the file returns or throws, and a write that can start or
\* end does
LedgerFairness ==
  /\ WF_vars(LoadDone \/ LoadFailed)
  /\ WF_vars(WriteStart)
  /\ WF_vars(\E i \in 1..MaxAppends : WriteDone(i) \/ WriteFailed(i))

LedgerFairSpec == LedgerSpec /\ LedgerFairness

\* ------------------------------------------------------------------------
\* The portfolio history of a session: load, the values the connection
\* reports, seedIfEmpty, the clock, the queued writes
\* ------------------------------------------------------------------------

MaxCalls == 3
MaxMinutes == 5

\* what the file holds when the hook mounts: nothing; one recent point;
\* two points out of order; two rows of one timestamp; more points than the
\* cap; a row that is no point
StoredLogs ==
  LET P(t, v) == [ts |-> {t}, netLiquidation |-> {v}, n |-> 0]
  IN { <<>>,
       <<P(StartMs - 30000, 40000)>>,
       <<P(StartMs - 600000, 40000), P(StartMs - 900000, 40000)>>,
       <<P(StartMs - 900000, 40000), P(StartMs - 900000, 40040)>>,
       [i \in 1..(MaxHistory + 1) |->
          P(StartMs - (MaxHistory + 2 - i) * MinIntervalMs, 40000)],
       <<[ts |-> {}, netLiquidation |-> {40000}, n |-> 0]>> }

\* netLiquidation as the account reports it: not a number, zero, a value,
\* and moves of it at and above the threshold
ReportedValues == {{}, {0}, {40000}, {40050}, {40051}}

\* how far Date.now() moves between two events
ClockSteps == {MinIntervalMs - SeedOffsetMs, MinIntervalMs}

PortfolioInit ==
  /\ AtRest
  /\ reg = IdleReg
  /\ ledger = IdleLedger
  /\ pure = IdlePure
  /\ \E rows \in StoredLogs : port = [IdlePort EXCEPT !.disk = rows]

PortLoadDone ==
  /\ ~port.loaded
  /\ Becomes(portLoadDone(World))

PortLoadFailed ==
  /\ ~port.loaded
  /\ Becomes(portLoadFailed(World))

\* the account reports a value (or the same value with other cash) and
\* the recording effect runs
Observe(v) ==
  /\ port.calls < MaxCalls
  /\ Becomes(recordEffect([World EXCEPT !.port.netLiquidation = v,
                                        !.port.seeded = "no"]))

\* the connection comes up and the recording effect runs
ConnectedEffect ==
  /\ conn = "connecting"
  /\ Becomes(recordEffect([World EXCEPT !.conn = "connected",
                                        !.port.seeded = "no"]))

\* the chart asks for a seed
SeedIfEmpty(eager) ==
  /\ port.calls + 2 <= MaxCalls
  /\ Becomes(seedIfEmpty(World, eager))

ClockAdvance(d) ==
  /\ port.now + d <= StartMs + MaxMinutes * SeedOffsetMs
  /\ Becomes([World EXCEPT !.port.now = @ + d, !.port.seeded = "no"])

PortWriteStart ==
  /\ port.queue # <<>>
  /\ ChainFree(port.writing)
  /\ Becomes(portWriteStart(World))

PortWriteDone(i) ==
  /\ i \in 1..Len(port.writing)
  /\ Becomes(portWriteDone(World, i))

PortWriteFailed(i) ==
  /\ i \in 1..Len(port.writing)
  /\ Becomes(portWriteFailed(World, i))

PortfolioNext ==
  \/ ConnectedEffect
  \/ PortLoadDone
  \/ PortLoadFailed
  \/ \E v \in ReportedValues : Observe(v)
  \/ \E eager \in BOOLEAN : SeedIfEmpty(eager)
  \/ \E d \in ClockSteps : ClockAdvance(d)
  \/ PortWriteStart
  \/ \E i \in 1..MaxCalls : PortWriteDone(i)
  \/ \E i \in 1..MaxCalls : PortWriteFailed(i)

PortfolioSpec == PortfolioInit /\ [][PortfolioNext]_vars

\* how often the account changes in a session
MaxSwitches == 2

\* what the two files hold when the hook mounts: an execution of an
\* earlier session each
StoredFirst ==
  <<[id |-> {<<"string", 8>>}, execId |-> {}, time |-> {1}, price |-> 10]>>

StoredSecond ==
  <<[id |-> {<<"string", 9>>}, execId |-> {}, time |-> {1}, price |-> 10]>>

\* what the connection reports in the session
SwitchExecutions ==
  {[id |-> {<<"string", 1>>}, execId |-> {}, time |-> {1}, price |-> 10],
   [id |-> {}, execId |-> {<<"string", 2>>}, time |-> {}, price |-> 10]}

LedgerSwitchInit ==
  /\ AtRest
  /\ reg = IdleReg
  /\ pure = IdlePure
  /\ ledger = [IdleLedger EXCEPT !.disk = StoredFirst,
                                 !.disk2 = StoredSecond]
  /\ port = IdlePort

\* the props accountId changes
LedgerAccountChange ==
  /\ ledger.switches < MaxSwitches
  /\ Becomes(ledgerAccountChange(World))

\* a read started for an account that is no longer the current one ends
LedgerStaleLoadDone(i) ==
  /\ i \in 1..Len(ledger.stale)
  /\ Becomes(ledgerStaleLoadDone(World, i))

LedgerSwitchNext ==
  \/ \E i \in {1} : BrokerNextValidId(i)
  \/ LoadDone
  \/ LoadFailed
  \/ LedgerAccountChange
  \/ \E i \in 1..MaxSwitches : LedgerStaleLoadDone(i)
  \/ \E exec \in SwitchExecutions : ReportExecution(exec)
  \/ WriteStart
  \/ \E i \in 1..MaxAppends : WriteDone(i)
  \/ \E i \in 1..MaxAppends : WriteFailed(i)

LedgerSwitchSpec == LedgerSwitchInit /\ [][LedgerSwitchNext]_vars

\* the first account's file is empty, the second's is empty or holds a
\* point of an earlier session
SwitchInit ==
  /\ AtRest
  /\ reg = IdleReg
  /\ ledger = IdleLedger
  /\ pure = IdlePure
  /\ \E rows \in {<<>>, <<[ts |-> {StartMs - 2 * MinIntervalMs},
                            netLiquidation |-> {40000}, n |-> 0]>>} :
        port = [IdlePort EXCEPT !.disk2 = rows]

\* the props accountId changes
PortAccountChange ==
  /\ port.switches < MaxSwitches
  /\ Becomes(portAccountChange(World))

\* a read started for an account that is no longer the current one ends
PortStaleLoadDone(i) ==
  /\ i \in 1..Len(port.stale)
  /\ Becomes(portStaleLoadDone(World, i))

\* values close to each other and one that moved
SwitchValues == {{40000}, {40051}}

SwitchNext ==
  \/ ConnectedEffect
  \/ PortLoadDone
  \/ PortLoadFailed
  \/ PortAccountChange
  \/ \E i \in 1..MaxSwitches : PortStaleLoadDone(i)
  \/ \E v \in SwitchValues : Observe(v)
  \/ \E d \in ClockSteps : ClockAdvance(d)
  \/ PortWriteStart
  \/ \E i \in 1..MaxCalls : PortWriteDone(i)
  \/ \E i \in 1..MaxCalls : PortWriteFailed(i)

SwitchSpec == SwitchInit /\ [][SwitchNext]_vars

TypeOK ==
  /\ app \in Apps
  /\ conn \in {"connecting", "connected", "disconnected"}
  /\ \A s \in Subs : sub[s].pc \in {"idle", "allocating", "tracking", "done"}
  /\ \A c \in Cans : can[c].pc \in {"idle", "waiting", "done"}


\* ------------------------------------------------------------------------
\* Properties
\* ------------------------------------------------------------------------

SubPending(s) == sub[s].pc \in {"allocating", "tracking"}
CanPending(c) == can[c].pc = "waiting"

\* the listeners of an event that belong to an operation, not to the
\* connection layer
OperationListeners(name) ==
  SelectSeq(listeners[name], LAMBDA l : l.op # "conn")

\* C1: resolve or reject is called at most once for a submission, and
\* exactly once when the submission is done, whatever events and timer
\* expiries occurred, also after further events for the same order id.
C1_SettledOnce ==
  \A s \in Subs :
    /\ sub[s].settleCalls <= 1
    /\ (sub[s].pc = "done") <=> (sub[s].settleCalls = 1)
    /\ (sub[s].settleCalls = 1) <=> (sub[s].outcome # Pending)

\* a submission accepted on Submitted for which the broker later sent a
\* terminal status
C1_Witness ==
  \E s \in Subs :
    /\ sub[s].pc = "done"
    /\ sub[s].outcome.kind = "resolved"
    /\ sub[s].outcome.by = "status"
    /\ sub[s].outcome.status = "Submitted"
    /\ sub[s].terminalSeen = {"Filled"}
    /\ sub[s].settleCalls = 1

\* C2 as stated: an order that received a terminal status for its id before
\* the timer fired is resolved with exactly that status, whatever preceded.
C2_AsStated ==
  \A s \in Subs :
    (app = "useTrade" /\ sub[s].terminalSeen # {})
      => /\ sub[s].outcome.kind = "resolved"
         /\ {sub[s].outcome.status} = sub[s].terminalSeen

\* C2 amended: a useTrade submission that is still unresolved when a status
\* event for its id with status Filled, Cancelled or Inactive arrives is
\* resolved in that step with exactly that status, and resolve or reject is
\* not called again for it.
C2_TerminalResolves ==
  \A s \in Subs : \A ev \in sub[s].resolverSeen :
    (app = "useTrade" /\ ev.status \in {"Filled", "Cancelled", "Inactive"})
      => /\ sub[s].pc = "done"
         /\ sub[s].outcome.kind = "resolved"
         /\ sub[s].outcome.status = ev.status
         /\ sub[s].settleCalls = 1

\* a submission with a rejection recorded, resolved by a Cancelled status
C2_Witness ==
  \E s \in Subs :
    /\ app = "useTrade"
    /\ sub[s].pc = "done"
    /\ sub[s].outcome.by = "status"
    /\ sub[s].outcome.status = "Cancelled"
    /\ sub[s].terminalSeen = {"Cancelled"}
    /\ sub[s].orderRejection # Null

\* C3: the first status event for the submission's id with status
\* Submitted, PreSubmitted or Filled that arrives while it is unresolved
\* resolves it in that step with the event's status, filled and
\* avgFillPrice and with the warning recorded so far.
C3_AcceptedResolves ==
  \A s \in Subs : \A ev \in sub[s].resolverSeen :
    ev.status \in {"Submitted", "PreSubmitted", "Filled"}
      => /\ sub[s].pc = "done"
         /\ sub[s].outcome.kind = "resolved"
         /\ sub[s].outcome.by = "status"
         /\ sub[s].outcome.status = ev.status
         /\ sub[s].outcome.filled = {ev.filled}
         /\ sub[s].outcome.avgFillPrice = {ev.avgFillPrice}
         /\ sub[s].outcome.warning = ev.warning

\* resolved on PreSubmitted, nothing filled, with a market-closed warning
C3_Witness ==
  \E s \in Subs :
    /\ sub[s].pc = "done"
    /\ sub[s].outcome.kind = "resolved"
    /\ sub[s].outcome.by = "status"
    /\ sub[s].outcome.status = "PreSubmitted"
    /\ sub[s].outcome.filled = {0}
    /\ sub[s].outcome.warning # Null
    /\ sub[s].outcome.warning.type = "market_closed"

\* C4: when the timer of useTrade.submitOrder resolves the submission, the
\* status is Inactive with the rejection's reason if a rejection was
\* recorded, else Submitted with the non-null warning if a warning was
\* recorded, else the last status observed ('Submitting' if none).
C4_TimerPrecedence ==
  \A s \in Subs :
    (app = "useTrade" /\ sub[s].pc = "done" /\ sub[s].outcome.by = "timer")
      => /\ sub[s].outcome.kind = "resolved"
         /\ IF sub[s].orderRejection # Null
            THEN /\ sub[s].outcome.status = "Inactive"
                 /\ sub[s].outcome.rejectionReason
                      = {sub[s].orderRejection.reason}
            ELSE IF sub[s].orderWarning # Null
            THEN /\ sub[s].outcome.status = "Submitted"
                 /\ sub[s].outcome.warning = sub[s].orderWarning
            ELSE /\ sub[s].outcome.status = sub[s].lastStatus
                 /\ sub[s].lastStatus \in {"Submitting", "PendingSubmit"}
                 /\ sub[s].outcome.warning = Null

\* the timer fired with both a rejection and a warning recorded
C4_Witness ==
  \E s \in Subs :
    /\ app = "useTrade"
    /\ sub[s].pc = "done"
    /\ sub[s].outcome.by = "timer"
    /\ sub[s].orderRejection # Null
    /\ sub[s].orderWarning # Null
    /\ sub[s].outcome.status = "Inactive"

C6_UnclassifiedFails ==
  \A s \in Subs : \A text \in sub[s].fatalSeen :
    /\ sub[s].pc = "done"
    /\ sub[s].outcome.kind = "rejected"
    /\ sub[s].outcome.by = "error"
    /\ sub[s].outcome.error = text
    /\ sub[s].settleCalls = 1
    /\ (app = "useTrade" /\ \A t \in Subs \ {s} : sub[t].pc = "idle")
         => hook.error = {text}

\* an error event without a message failed a useTrade submission
C6_Witness ==
  \E s \in Subs :
    /\ app = "useTrade"
    /\ sub[s].pc = "done"
    /\ sub[s].outcome.by = "error"
    /\ sub[s].outcome.error = <<"Error submitting order">>
    /\ hook.error = {<<"Error submitting order">>}

\* C7: an error event whose code is informational never fails a submission
\* in flight and never changes its stored warning, stored rejection or
\* last status, whatever its message and scoping id.
C7_InfoCodeIgnored ==
  [][ \A ev \in ErrorEvents :
        (ev.code # {} /\ ev.code \subseteq INFO_CODES /\ BrokerError(ev))
          => \A s \in Subs :
               /\ sub'[s].pc = sub[s].pc
               /\ sub'[s].outcome = sub[s].outcome
               /\ sub'[s].orderWarning = sub[s].orderWarning
               /\ sub'[s].orderRejection = sub[s].orderRejection
               /\ sub'[s].lastStatus = sub[s].lastStatus ]_vars

NoTraceAfter(s) ==
  /\ ~sub'[s].placed
  /\ sub'[s].idTimer = {} /\ sub'[s].timer = {}
  /\ \A name \in DOMAIN listeners' : \A i \in 1..Len(listeners'[name]) :
       ~(listeners'[name][i].op = "sub" /\ listeners'[name][i].slot = s)

PreflightFailed(s) ==
  /\ sub'[s].pc = "done"
  /\ sub'[s].outcome.kind = "rejected"
  /\ sub'[s].outcome.by = "preflight"

C10_AlwaysSettles ==
  /\ [](\A s \in Subs :
          /\ sub[s].pc = "allocating"
               => /\ sub[s].idTimer # {}
                  /\ \A t \in sub[s].idTimer : 0 <= t /\ t <= IdTimeoutMs
          /\ sub[s].pc = "tracking"
               => /\ sub[s].timer # {}
                  /\ \A t \in sub[s].timer : 0 <= t /\ t <= SubmitTimeoutMs)
  /\ [](\A c \in Cans :
          can[c].pc = "waiting"
            => /\ can[c].timer # {}
               /\ \A t \in can[c].timer : 0 <= t /\ t <= CancelTimeoutMs)
  /\ \A s \in Subs : SubPending(s) ~> (sub[s].pc = "done")
  /\ \A c \in Cans : CanPending(c) ~> (can[c].pc = "done")

\* a submission that saw only PendingSubmit and a cancel whose order was
\* never reported Cancelled, both settled by their timers
C10_Witness ==
  /\ \E s \in Subs :
       /\ sub[s].pc = "done"
       /\ sub[s].outcome.by = "timer"
       /\ sub[s].lastStatus = "PendingSubmit"
  /\ \E c \in Cans : can[c].pc = "done" /\ can[c].outcome.by = "timer"

\* ------------------------------------------------------------------------
\* Properties of the classifier
\* ------------------------------------------------------------------------

MatchesSome(table, message) ==
  \E n \in 1..Len(table) : PatternMatches(table[n], message)

HasLineBreakTag(text) ==
  \E i \in 1..Len(text) :
    /\ text[i] \in {"<br", "<BR"}
    /\ \/ (i + 1 <= Len(text) /\ text[i + 1] = ">")
       \/ (i + 2 <= Len(text) /\ text[i + 1] = "/" /\ text[i + 2] = ">")
       \/ (i + 3 <= Len(text) /\ text[i + 1] = " " /\ text[i + 2] = "/"
             /\ text[i + 3] = ">")

Padded(text) ==
  text # <<>> /\ (Head(text) \in WhiteSpace \/ text[Len(text)] \in WhiteSpace)

\* C12: the reason of every rejection, of useTrade's extractRejection and
\* of the server's, holds no line-break tag and neither starts nor ends
\* with white space.
C12_ReasonClean ==
  \A r \in (IF pure.fn = "classify" THEN pure.result ELSE {}) :
    /\ r.rejection # Null
          => (~HasLineBreakTag(r.rejection.reason)
                /\ ~Padded(r.rejection.reason))
    /\ r.execRejection # Null
          => (~HasLineBreakTag(r.execRejection.reason)
                /\ ~Padded(r.execRejection.reason))

\* ------------------------------------------------------------------------
\* Properties of the open orders registry
\* ------------------------------------------------------------------------

Records(list) == {list[i] : i \in 1..Len(list)}

\* C13: the pending list holds exactly the records of the map whose status
\* is PendingSubmit, PreSubmitted or Submitted, no order id twice, newest
\* update first.
C13_PendingView ==
  /\ Records(orders) = {o \in Records(ordersMap) : o.status \in pendingStatuses}
  /\ \A i, j \in 1..Len(orders) :
        i < j => /\ orders[i].orderId # orders[j].orderId
                 /\ orders[i].lastUpdate >= orders[j].lastUpdate
  /\ \A i, j \in 1..Len(ordersMap) :
        i < j => ordersMap[i].orderId # ordersMap[j].orderId

Ids(list) == {list[i].orderId : i \in 1..Len(list)}

\* refresh was called on this connection and the broker has delivered
\* every snapshot asked for, end marker included
RefreshDelivered ==
  /\ conn = "connected"
  /\ reg.subscribed
  /\ reg.refreshed
  /\ reg.requests = 0
  /\ ~reg.streaming

\* after a delivered refresh the map holds the broker's open orders with
\* the broker's status
MapReflectsBook ==
  RefreshDelivered
    => /\ OpenIds(reg.book) \subseteq Ids(ordersMap)
       /\ \A o \in Records(ordersMap) :
             o.status = reg.book[o.orderId].status

\* C16: once the snapshots of one or more refresh calls are delivered, the
\* map and the pending view are those of the broker's open orders, however
\* many times and whenever refresh was called; refresh without a
\* connection changes nothing.
C16_RefreshIdempotent ==
  /\ MapReflectsBook
  /\ RefreshDelivered => Ids(orders) = OpenIds(reg.book)

\* C17: every record of the registry has filled + remaining = quantity and
\* filled >= 0, after any snapshots and status deltas whose reported values
\* satisfy the equation themselves.
C17_FilledPlusRemaining ==
  \A o \in Records(ordersMap) :
    /\ o.filled >= 0
    /\ o.filled + o.remaining = o.quantity

\* ------------------------------------------------------------------------
\* Properties of cancelOrder beside the registry
\* ------------------------------------------------------------------------

\* the cancel settles in this step
CancelSettles(c) == can[c].pc = "waiting" /\ can'[c].pc = "done"

\* C14: a Cancelled status for the order of an outstanding cancel, before
\* its timer fires and before an error scoped to the order, resolves the
\* cancel with {orderId, status: 'Cancelled'}, and right after that step the
\* order is in neither the map nor the pending view.
C14_CancelConfirmed ==
  /\ [](\A c \in Cans :
          can[c].confirmSeen
            => /\ can[c].pc = "done"
               /\ can[c].outcome =
                    [kind |-> "resolved", by |-> "status",
                     orderId |-> can[c].orderId, status |-> "Cancelled"])
  /\ [][\A c \in Cans :
          (CancelSettles(c) /\ can'[c].outcome.kind = "resolved")
            => /\ can'[c].confirmSeen
               /\ can[c].orderId \notin Ids(ordersMap')
               /\ can[c].orderId \notin Ids(orders')]_vars

\* a cancel confirmed for an order the registry held, another order still
\* in the registry
C14_Witness ==
  \E c \in Cans :
    /\ can[c].pc = "done"
    /\ can[c].confirmSeen
    /\ can[c].outcome.kind = "resolved"
    /\ reg.subscribed
    /\ reg.book[can[c].orderId].status = "Cancelled"
    /\ Ids(orders) = OrderIds \ {can[c].orderId}

\* C15: an error scoped to the order of an outstanding cancel, or the
\* timer running out, rejects the cancel (with the broker's message in the
\* error case) and leaves the registry as it was; nothing else settles
\* the cancel: no other status of the order, no error without its id.
C15_CancelRejected ==
  /\ [](\A c \in Cans :
          can[c].errorSeen # {}
            => /\ can[c].pc = "done"
               /\ \A m \in can[c].errorSeen :
                    can[c].outcome = Rejected("error", m))
  /\ [][\A c \in Cans :
          CancelSettles(c)
            => \/ can'[c].confirmSeen
               \/ /\ can'[c].outcome.kind = "rejected"
                  /\ ordersMap' = ordersMap
                  /\ orders' = orders
                  /\ \/ can'[c].errorSeen # {}
                     \/ /\ can[c].timer = {0}
                        /\ can'[c].outcome =
                             Rejected("timer",
                                      <<"Timeout cancelando orden">>)]_vars

\* a cancel rejected with the broker's message while the registry holds
\* its order
C15_Witness ==
  \E c \in Cans :
    /\ can[c].pc = "done"
    /\ can[c].errorSeen = {<<"Insufficient funds">>}
    /\ can[c].outcome.kind = "rejected"
    /\ can[c].orderId \in Ids(ordersMap)
    /\ can[c].orderId \in Ids(orders)

\* ------------------------------------------------------------------------
\* Properties of the trade ledger
\* ------------------------------------------------------------------------

ExecIds(list) == {list[i].id : i \in 1..Len(list)}

\* the ids of the executions of a list that have an identity
StableIds(list) ==
  {StringOf(raw) : raw \in UNION {IdentityOf(list[i]) : i \in 1..Len(list)}}

\* each id once, in the order of (time, id)
UniqueAndSorted(list) ==
  \A i, j \in 1..Len(list) :
    i < j => list[i].id # list[j].id /\ ExecBefore(list[i], list[j])

\* what every merge satisfies, whatever the records of A and B
MergeBasics(r) ==
  /\ UniqueAndSorted(r.merged)
  /\ ExecIds(r.merged) = StableIds(pure.A) \cup StableIds(pure.B)
  /\ r.self = r.alone
  /\ r.again = r.merged
  /\ r.withB = r.merged

\* C18 as stated: the result has each id with an identity once, sorted by
\* (time, id), and merging a list with itself, or the result with A or B
\* again, yields the same result.
C18_AsStated ==
  \A r \in pure.result :
    pure.fn = "merge" => MergeBasics(r) /\ r.withA = r.merged

\* C18: the result has each id with an identity once, sorted by (time,
\* id); merging a list with itself, the result with itself or the result
\* with B again yields the same result; merging the result with A again
\* yields the same ids with A's records in place of B's, which is the same
\* result when A and B agree on the ids they share.
C18_MergeIdempotent ==
  \A r \in pure.result :
    pure.fn = "merge"
      => /\ MergeBasics(r)
         /\ ExecIds(r.withA) = ExecIds(r.merged)
         /\ r.withA = mergeUniqueById(pure.B, pure.A)
         /\ (\A i \in 1..Len(pure.A), j \in 1..Len(pure.B) :
               normalizeExec(pure.A[i]) = normalizeExec(pure.B[j])
               \/ StableIds(<<pure.A[i]>>) # StableIds(<<pure.B[j]>>))
            => r.withA = r.merged

\* two lists that share an id with different prices, merged to two records
C18_Witness ==
  \E r \in pure.result :
    /\ pure.fn = "merge"
    /\ Len(pure.A) = 2 /\ Len(pure.B) = 2
    /\ Len(r.merged) = 2
    /\ r.withA # r.merged
    /\ \E i \in 1..2 : r.merged[i].price = 11

\* appendExecution was called in this step with an execution that has an
\* identity
Appended == Len(ledger'.log) = Len(ledger.log) + 1

LastAppended == ledger'.log[Len(ledger'.log)].exec

\* C19: appending an execution whose id the ledger already has (loaded
\* from the file or appended before) changes neither the ledger nor the
\* file and queues no write; appending one with a new id adds it to the
\* ledger in that step and queues exactly one write; no id is written to
\* the file twice in a session.
C19_AppendOnce ==
  /\ [][Appended =>
          IF LastAppended.id \in ExecIds(ledger.allExecutions)
          THEN /\ ledger'.allExecutions = ledger.allExecutions
               /\ ledger'.queue = ledger.queue
               /\ ledger'.disk = ledger.disk
          ELSE /\ \E i \in 1..Len(ledger'.allExecutions) :
                    ledger'.allExecutions[i] = LastAppended
               /\ Len(ledger'.allExecutions)
                    = Len(ledger.allExecutions) + 1
               /\ ledger'.queue = Append(ledger.queue, LastAppended)
               /\ ledger'.disk = ledger.disk]_vars
  /\ [](\A i, j \in 1..Len(ledger.written) :
          i < j => ledger.written[i] # ledger.written[j])

\* an id appended twice, and a second id, each written once
C19_Witness ==
  /\ Len(ledger.log) = 3
  /\ ledger.log[1].exec.id = ledger.log[2].exec.id
  /\ ledger.log[3].exec.id # ledger.log[1].exec.id
  /\ Len(ledger.written) = 2
  /\ ledger.queue = <<>>
  /\ ledger.writing = <<>>

\* two appends in a row of the same id at different prices
SameIdTwice(i) ==
  /\ ledger.log[i].exec.id = ledger.log[i + 1].exec.id
  /\ ledger.log[i].exec.price # ledger.log[i + 1].exec.price

RecordsOf(list, id) == {i \in 1..Len(list) : list[i].id = id}

\* C20 as stated: after two appends of one execution id at different
\* prices the ledger holds one record of the id, at the second price, and
\* is as long as after the first append.
C20_AsStated ==
  \A i \in 1..(Len(ledger.log) - 1) :
    SameIdTwice(i)
      => LET after == ledger.log[i + 1].ledger
             second == ledger.log[i + 1].exec
         IN /\ Cardinality(RecordsOf(after, second.id)) = 1
            /\ \A k \in RecordsOf(after, second.id) :
                  after[k].price = second.price
            /\ Len(after) = Len(ledger.log[i].ledger)

\* C20: after two appends of one execution id at different prices the
\* ledger is the one the first append left (the second append is
\* skipped): it holds one record of the id, at the first price when the
\* first append added the id.
C20_FirstAppendStays ==
  \A i \in 1..(Len(ledger.log) - 1) :
    SameIdTwice(i)
      => LET after == ledger.log[i + 1].ledger
             second == ledger.log[i + 1].exec
         IN /\ Cardinality(RecordsOf(after, second.id)) = 1
            /\ after = ledger.log[i].ledger
            /\ ledger.log[i].fresh
                 => \A k \in RecordsOf(after, second.id) :
                      after[k].price = ledger.log[i].exec.price

\* a new id appended at 10 and then at 11: the ledger holds it at 10
C20_Witness ==
  /\ Len(ledger.log) >= 2
  /\ ledger.disk = <<>>
  /\ ledger.log[1].exec.price = 10
  /\ ledger.log[2].exec.price = 11
  /\ ledger.log[1].exec.id = ledger.log[2].exec.id
  /\ Len(ledger.allExecutions) = 1
  /\ ledger.allExecutions[1].price = 10

\* ------------------------------------------------------------------------
\* Properties of the server's executor and of the error handler's frame
\* ------------------------------------------------------------------------

\* C29: when the timer of TradeExecutor._submitOrder fires with both a
\* rejection and a warning recorded, the submission is reported as the
\* rejection, not as an accepted order with status Submitted.
C29_RejectionPrecedes ==
  \A s \in Subs :
    (/\ app = "TradeExecutor"
     /\ sub[s].pc = "done"
     /\ sub[s].outcome.by = "timer"
     /\ sub[s].orderRejection # Null
     /\ sub[s].orderWarning # Null)
      => /\ sub[s].outcome.kind = "rejected"
         /\ sub[s].outcome.error = sub[s].orderRejection.reason

\* the listeners that submissions have registered
SubListeners(ls) ==
  [name \in DOMAIN ls |-> SelectSeq(ls[name], LAMBDA l : l.op = "sub")]

\* the error events whose message has the given class
EventsOfClass(class) ==
  {ev \in ErrorEvents :
     ev.message # <<>> /\ Classification(ev.message) = class}

IgnorableEvents == EventsOfClass("ignorable")
WarningEvents == EventsOfClass("warning")
RejectionEvents == EventsOfClass("rejection")

\* the state BrokerError(ev) leads to
Handled(ev) == ObserveError(Emit(World, "error", ev), ev)

\* C30: the step that handles an error event classified as ignorable,
\* warning or rejection never settles a submission: an ignorable event
\* changes nothing of it, a warning only its stored warning, a rejection
\* only its stored rejection; its last status, its listeners and its timer
\* stay as they are.  Stated of the state BrokerError leads to from every
\* reachable state.
C30_ErrorFrame ==
  conn = "connected"
    => /\ \A ev \in IgnorableEvents :
            LET W == Handled(ev)
            IN W.sub = sub /\ SubListeners(W.listeners) = SubListeners(listeners)
       /\ \A ev \in WarningEvents :
            LET W == Handled(ev)
            IN /\ SubListeners(W.listeners) = SubListeners(listeners)
               /\ W.sub = [s \in Subs |->
                             [sub[s] EXCEPT !.orderWarning =
                                              W.sub[s].orderWarning]]
       /\ \A ev \in RejectionEvents :
            LET W == Handled(ev)
            IN /\ SubListeners(W.listeners) = SubListeners(listeners)
               /\ W.sub = [s \in Subs |->
                             [sub[s] EXCEPT !.orderRejection =
                                              W.sub[s].orderRejection]]

\* a submission still tracked, its timer running, after a rejection and a
\* warning were recorded for it
C30_Witness ==
  \E s \in Subs :
    /\ app = "useTrade"
    /\ sub[s].pc = "tracking"
    /\ sub[s].orderRejection # Null
    /\ sub[s].orderWarning # Null
    /\ sub[s].timer # {}
    /\ SubListeners(listeners).error # <<>>

\* ------------------------------------------------------------------------
\* Properties of the queued writes
\* ------------------------------------------------------------------------

\* the numbers of the calls whose rows this session wrote, as written
WrittenCalls(disk) ==
  LET rows == SelectSeq(disk, LAMBDA r : r.n > 0)
  IN [i \in 1..Len(rows) |-> rows[i].n]

\* the ids appendExecution queued, in the order of the calls
QueuedIds ==
  LET fresh == SelectSeq(ledger.log, LAMBDA e : e.fresh)
  IN [i \in 1..Len(fresh) |-> fresh[i].exec.id]

\* the trade ledger's writes: one at a time, in the order of the calls
LedgerWritesSerial ==
  /\ Len(ledger.writing) <= 1
  /\ \A i, j \in 1..Len(ledger.written) :
        i < j => \E a, b \in 1..Len(QueuedIds) :
                   /\ a < b
                   /\ QueuedIds[a] = ledger.written[i]
                   /\ QueuedIds[b] = ledger.written[j]

\* C21: for one store at most one append to the file is in progress at any
\* time, and the rows reach the file in the order of the append calls,
\* however many calls are made while earlier writes are pending.
C21_WritesSerial ==
  /\ Len(port.writing) <= 1
  /\ \A i, j \in 1..Len(WrittenCalls(port.disk)) :
        i < j => WrittenCalls(port.disk)[i] < WrittenCalls(port.disk)[j]
  /\ \A i, j \in 1..Len(port.queue) :
        i < j => port.queue[i].n < port.queue[j].n
  /\ \A i \in 1..Len(port.queue), k \in 1..Len(port.writing) :
        port.writing[k].n < port.queue[i].n

\* three calls made before the first write started, all three written
C21_Witness ==
  /\ port.calls = 3
  /\ WrittenCalls(port.disk) = <<1, 2, 3>>
  /\ port.disk[Len(port.disk)].ts = port.disk[Len(port.disk) - 1].ts

\* C22: every execution with an identity that the connection reports
\* while connected is in the ledger in the end, whether it is reported
\* before or after the load of the file completes.
C22_ReportedAppears ==
  \A exec \in ReportedExecutions :
    \A n \in normalizeExec(exec) :
      (conn = "connected" /\ ledger.executions = <<exec>>)
        ~> (n.id \in ExecIds(ledger.allExecutions))

\* ------------------------------------------------------------------------
\* Properties of the failures of the file
\* ------------------------------------------------------------------------

\* a write of the trade ledger ends and the file is as it was
LedgerWriteFails ==
  /\ Len(ledger'.writing) < Len(ledger.writing)
  /\ ledger'.disk = ledger.disk

\* C23: a failed read or write of the file stops nothing.  After a failed
\* write the record is still in memory and the writes queued behind it can
\* start; after a failed load the store is loaded with an empty ledger; and
\* a loaded store takes every execution with an identity it is given.
C23_FailuresContained ==
  [][/\ LedgerWriteFails =>
          /\ ledger'.allExecutions = ledger.allExecutions
          /\ ledger'.knownIds = ledger.knownIds
          /\ ledger'.loaded = ledger.loaded
          /\ ledger'.queue = ledger.queue
          /\ ChainFree(ledger'.writing)
     /\ LoadFailed =>
          /\ ledger'.loaded
          /\ ledger'.allExecutions = <<>>
          /\ ledger'.queue = <<>>
     /\ \A exec \in ReportedExecutions :
          (ledger.loaded /\ ReportExecution(exec)) =>
             StableIds(<<exec>>) \subseteq ExecIds(ledger'.allExecutions)
    ]_vars

\* the load failed (an id the file held was appended as a new one), the
\* first of two writes failed, the second was made, both records are in
\* memory
C23_Witness ==
  /\ ledger.loaded
  /\ Len(QueuedIds) = 2
  /\ ledger.written = <<QueuedIds[2]>>
  /\ ledger.queue = <<>>
  /\ ledger.writing = <<>>
  /\ {QueuedIds[1], QueuedIds[2]} \subseteq ExecIds(ledger.allExecutions)
  /\ Len(ledger.disk) > 1
  /\ \E k \in 1..2 : QueuedIds[k] \in StableIds(<<ledger.disk[1]>>)

\* ------------------------------------------------------------------------
\* Properties of the portfolio history
\* ------------------------------------------------------------------------

\* C24: the portfolio history in memory has no two points of one
\* timestamp and its timestamps do not decrease, after the load, a
\* recorded sample, appendPoint and seedIfEmpty with the state updates its
\* own appendPoint calls queue.
C24_HistoryOrdered ==
  \A i, j \in 1..Len(port.history) :
    i < j => port.history[i].ts < port.history[j].ts

\* the value has not moved from the last recorded one by more than
\* max(50, 0.1% of it), in thousandths
NotMovedMore(last, netLiquidation) ==
  Abs(netLiquidation - last.netLiquidation) * 1000
    <= IF MinThreshold * 1000 > Abs(last.netLiquidation)
       THEN MinThreshold * 1000 ELSE Abs(last.netLiquidation)

\* the step has recorded the value at the time of the clock
RecordedNow(v) ==
  /\ port'.calls = port.calls + 1
  /\ port'.queue = Append(port.queue,
                          [ts |-> port.now, netLiquidation |-> v,
                           n |-> port.calls + 1])
  /\ port'.lastAppend = {[ts |-> port.now, netLiquidation |-> v]}

\* the step has recorded nothing
RecordedNothing ==
  /\ port'.calls = port.calls
  /\ port'.queue = port.queue
  /\ port'.history = port.history
  /\ port'.lastAppend = port.lastAppend

\* C25: a value observed by a connected, loaded store less than 5 minutes
\* after the last recorded sample that has not moved from it by more than
\* max(50, 0.1% of it) is not recorded, a move equal to the threshold
\* included; after 5 minutes or more, or with a larger move, it is
\* recorded.
C25_Throttle ==
  [][\A reported \in ReportedValues : \A v \in reported :
       \A last \in port.lastAppend :
         (Observe(reported) /\ conn = "connected" /\ port.loaded /\ v > 0)
           => IF /\ port.now - last.ts < MinIntervalMs
                 /\ NotMovedMore(last, v)
              THEN RecordedNothing
              ELSE RecordedNow(v)
    ]_vars

\* the two points of a seed: a minute or more apart, both in memory and
\* both queued for the file by this step
SeededPair ==
  /\ Len(port'.queue) = Len(port.queue) + 2
  /\ SubSeq(port'.queue, 1, Len(port.queue)) = port.queue
  /\ LET a == port'.queue[Len(port.queue) + 1]
         b == port'.queue[Len(port.queue) + 2]
     IN /\ a.ts + SeedOffsetMs <= b.ts
        /\ b.ts = port.now
        /\ \E i, k \in 1..Len(port'.history) :
              /\ port'.history[i] = [ts |-> a.ts,
                                     netLiquidation |-> a.netLiquidation]
              /\ port'.history[k] = [ts |-> b.ts,
                                     netLiquidation |-> b.netLiquidation]

\* C26: seedIfEmpty on a loaded store with a finite positive value and
\* fewer than 2 samples leaves two points a minute or more apart in the
\* history and queues both for the file; with 2 samples or more, a store
\* not loaded or a value that is not finite and positive it changes
\* neither the memory nor the file.
C26_Seed ==
  [][\A eager \in BOOLEAN :
       SeedIfEmpty(eager) =>
         IF /\ port.loaded
            /\ Recordable(port.netLiquidation)
            /\ Len(port.history) < 2
         THEN SeededPair
         ELSE /\ RecordedNothing
              /\ port'.disk = port.disk
              /\ port'.writing = port.writing
    ]_vars

\* an empty history seeded, its two points waiting for the file
C26_Witness ==
  /\ port.seeded = "seeded"
  /\ port.calls = 2
  /\ Len(port.queue) = 2
  /\ Len(port.history) = 2
  /\ port.history[1].ts = port.queue[1].ts
  /\ port.history[1].ts + SeedOffsetMs = port.history[2].ts

\* the rows of the file, in the order they were written
FileKeeps == [][SubSeq(port'.disk, 1, Len(port.disk)) = port.disk]_vars

\* C27: the portfolio history in memory never holds more points than the
\* cap, right after the load of a file with more timestamps than the cap
\* included.
C27_Capped == Len(port.history) <= MaxHistory

\* an append to a full history drops the oldest point
C27_OldestDropped ==
  [][(Len(port.history) = MaxHistory /\ Len(port'.history) = MaxHistory
        /\ port'.calls = port.calls + 1
        /\ port'.history # port.history)
       => port'.history =
            Append(Tail(port.history), port'.history[MaxHistory])
    ]_vars

\* ------------------------------------------------------------------------
\* Properties of the files of an account
\* ------------------------------------------------------------------------

\* C28: two different account ids never share a file: their portfolio
\* history paths differ and their executions paths differ, for ids that
\* differ only in characters the sanitizer replaces and for a missing id
\* too.
C28_DistinctFiles ==
  \A r \in (IF pure.fn = "path" THEN pure.result ELSE {}) :
    pure.a # pure.b =>
      /\ r.portfolioA # r.portfolioB
      /\ r.executionsA # r.executionsB

\* ------------------------------------------------------------------------
\* Properties of operations in flight at the same time
\* ------------------------------------------------------------------------

\* the step hands the id of one next-valid-id event to the submission
TakesId(s) == sub[s].pc = "allocating" /\ sub'[s].pc = "tracking"

\* C35: two submissions in flight at the same time never take their order
\* id from the same next-valid-id event, so they place their orders under
\* different ids.
C35_DistinctIds ==
  [][\A s, t \in Subs : (s # t /\ TakesId(s)) => ~TakesId(t)]_vars

\* the events scoped to an order id
StatusEventsFor(A) == {ev \in StatusEvents : ev.id = A}
ErrorEventsFor(A) == {ev \in ErrorEvents : ev.id = {A}}

\* C31: with operations in flight for different order ids A and B, no
\* status event for A and no error event scoped to A changes the last
\* status, the stored warning or the stored rejection of B's submission
\* or settles it, and none settles a cancel that waits for B.
C31_ScopedById ==
  \A A \in OrderIds :
    /\ \A s, t \in Subs :
         (/\ s # t
          /\ sub[s].pc = "tracking" /\ sub[s].orderId = A
          /\ sub[t].pc = "tracking" /\ sub[t].orderId # A)
           => /\ \A ev \in StatusEventsFor(A) :
                   Emit(World, "orderStatus", ev).sub[t] = sub[t]
              /\ \A ev \in ErrorEventsFor(A) :
                   Emit(World, "error", ev).sub[t] = sub[t]
    /\ \A c \in Cans :
         (can[c].pc = "waiting" /\ can[c].orderId # A)
           => /\ \A ev \in StatusEventsFor(A) :
                   Emit(World, "orderStatus", ev).can[c] = can[c]
              /\ \A ev \in ErrorEventsFor(A) :
                   Emit(World, "error", ev).can[c] = can[c]

\* order 1 has a status and a rejection of its own, order 2 is as it was
\* placed, and a cancel waits for order 2
C31_Witness ==
  /\ sub["s1"].pc = "tracking" /\ sub["s1"].orderId = 1
  /\ sub["s1"].lastStatus = "PendingSubmit"
  /\ sub["s1"].orderRejection # Null
  /\ sub["s2"].pc = "tracking" /\ sub["s2"].orderId = 2
  /\ sub["s2"].lastStatus = InitialStatus(app)
  /\ sub["s2"].orderRejection = Null
  /\ sub["s2"].orderWarning = Null
  /\ can["c1"].pc = "waiting" /\ can["c1"].orderId = 2

\* ------------------------------------------------------------------------
\* Properties of the registry's records
\* ------------------------------------------------------------------------

\* the record is as it was but for the fields a status delta carries
SameOrder(before, after) ==
  after = [before EXCEPT !.status = after.status,
                         !.filled = after.filled,
                         !.remaining = after.remaining,
                         !.avgFillPrice = after.avgFillPrice,
                         !.lastUpdate = after.lastUpdate]

\* C32: a status delta for order X changes only status, filled, remaining,
\* avgFillPrice and the time of the last update of X's record; what the
\* record holds of the order itself and every other record stay as they
\* are; a delta for an id the map does not hold adds no record and
\* changes nothing.
C32_DeltaFrame ==
  \A ev \in StatusEvents :
    LET after == ordersOnOrderStatus(World, ev)
    IN IF MapHas(ordersMap, ev.id)
       THEN /\ Len(after.ordersMap) = Len(ordersMap)
            /\ \A i \in 1..Len(ordersMap) :
                 IF ordersMap[i].orderId = ev.id
                 THEN SameOrder(ordersMap[i], after.ordersMap[i])
                 ELSE after.ordersMap[i] = ordersMap[i]
       ELSE after = World

\* a partial fill reported for order 1 beside the record of order 2
C32_Witness ==
  /\ ~reg.full
  /\ \E i, j \in 1..Len(ordersMap) :
       /\ ordersMap[i].orderId = 1
       /\ ordersMap[i].status = "Submitted"
       /\ ordersMap[i].filled = 3
       /\ ordersMap[i].quantity = OrderQuantity
       /\ ordersMap[j].orderId = 2
       /\ ordersMap[j].filled = 0

\* the published list shows no order with a terminal status
TerminalNotListed ==
  \A i \in 1..Len(orders) : orders[i].status \in pendingStatuses

\* C33: an order of the registry that has received a status of Filled,
\* Cancelled or Inactive is removed from the live registry: the orderId
\* map holds no record of it from then on.
C33_TerminalRemoved ==
  [][\A i \in OrderIds :
       (/\ MapHas(ordersMap, i)
        /\ reg.book[i].status \notin terminalStatuses
        /\ reg'.book[i].status \in terminalStatuses)
         => ~MapHas(ordersMap', i)
    ]_vars

\* the step delivers the end marker of a snapshot
EndMarker == reg.streaming /\ ~reg'.streaming /\ conn' = conn

\* C34: the loading flag of the registry is set whenever a subscription or
\* a refresh asks for the open orders, and only the end marker of a
\* snapshot clears it: no snapshot event, status delta, cancel, timer or
\* disconnect does.
C34_LoadingUntilMarker ==
  [][/\ reg'.requests > reg.requests => reg'.loading
     /\ (reg.loading /\ ~reg'.loading) => EndMarker
    ]_vars

\* loading is still shown after a snapshot event, a cancel that timed out
\* and the loss of the connection
C34_Witness ==
  /\ reg.loading
  /\ conn = "disconnected"
  /\ ordersMap # <<>>
  /\ can["c1"].pc = "done"
  /\ can["c1"].outcome.kind = "rejected"
  /\ can["c1"].outcome.by = "timer"


\* ------------------------------------------------------------------------
\* Properties of the order in which a command is sent
\* ------------------------------------------------------------------------

\* C36: when the place-order command of a submission, or the cancel-order
\* command of a cancel, was sent, the operation's status and error listeners
\* were already registered on the client.
C36_ListenFirst ==
  /\ \A s \in Subs : sub[s].placed => sub[s].heard
  /\ \A c \in Cans : can[c].sent => can[c].heard

\* an order was placed and has had a status since, and a cancel was sent and
\* confirmed
C36_Witness ==
  /\ sub["s1"].placed /\ sub["s1"].heard
  /\ sub["s1"].lastStatus = "PendingSubmit"
  /\ can["c1"].sent /\ can["c1"].heard
  /\ can["c1"].pc = "done" /\ can["c1"].confirmSeen


\* the submission has failed with the error placeOrder threw
PlaceFailed(s) == sub[s].outcome = Rejected("place", PlaceFailedMessage)

\* nothing of the submission is registered on the client
NoListenerOf(s) ==
  \A name \in DOMAIN listeners : \A i \in 1..Len(listeners[name]) :
     ~(listeners[name][i].op = "sub" /\ listeners[name][i].slot = s)

\* C37: once useTrade.submitOrder has failed with the error its placeOrder
\* threw, none of its orderStatus and error listeners is registered, its
\* timer is not running and the loading flag is false.
C37_PlaceFailureCleansUp ==
  \A s \in Solo :
     (app = "useTrade" /\ PlaceFailed(s)) =>
        /\ NoListenerOf(s)
        /\ sub[s].timer = {}
        /\ ~hook.loading

\* the server's executor does clean up when its placeOrder throws
ExecPlaceFailureCleansUp ==
  \A s \in Solo :
     (app = "TradeExecutor" /\ PlaceFailed(s)) =>
        (NoListenerOf(s) /\ sub[s].timer = {})


\* ------------------------------------------------------------------------
\* Properties of appendPoint: memory and disk
\* ------------------------------------------------------------------------

\* points that normalizePoint drops
InvalidPoints ==
  {[ts |-> t, netLiquidation |-> v] :
     t \in {{}, {port.now}}, v \in {{}, {40000}}} \
  {[ts |-> {port.now}, netLiquidation |-> {40000}]}

\* appendPoint leaves memory, queue and file alone when the point is invalid
InvalidWrittenNowhere ==
  \A p \in InvalidPoints : appendPoint(World, p) = World

\* this step called appendPoint once, with a point that normalizes
AppendedOnce == port'.calls = port.calls + 1

\* the in-memory history ends with the point queued last
LastInMemoryIsQueued ==
  /\ port'.history # <<>> /\ port'.queue # <<>>
  /\ LET h == port'.history[Len(port'.history)]
         q == port'.queue[Len(port'.queue)]
     IN h.ts = q.ts /\ h.netLiquidation = q.netLiquidation

\* C39: a step in which appendPoint queues the write of a point adds that
\* point to the in-memory history, and once the log is loaded the history
\* changes in no step that queues nothing.
C39_MemoryAndDisk ==
  [][/\ AppendedOnce =>
          (port'.history # port.history /\ LastInMemoryIsQueued)
     /\ (port'.calls = port.calls /\ port.loaded) =>
          port'.history = port.history]_vars


\* ------------------------------------------------------------------------
\* Properties of a change of account
\* ------------------------------------------------------------------------

\* the log of the new account is loaded and nothing was recorded for it yet
NewAccountReady ==
  /\ conn = "connected"
  /\ port.switches > 0
  /\ port.loaded
  /\ port.calls = port.callsAtSwitch

\* C38: after a change of account, the first valid sample the recording
\* effect sees once the new account's log is loaded is recorded, whatever
\* the last sample recorded for the previous account was.
C38_FirstSampleOfAccount ==
  \A v \in SwitchValues :
     (NewAccountReady /\ Recordable(v)) =>
        recordEffect([World EXCEPT !.port.netLiquidation = v]).port.calls
          = port.calls + 1


\* the ids of the rows of a file
IdsOfFile(rows) ==
  LET merged == mergeUniqueById(<<>>, rows)
  IN {merged[k].id : k \in 1..Len(merged)}

\* the ids the ledger of an account may hold: those of its file and those
\* appended for it
IdsOfAccount(a) ==
  IdsOfFile(LedgerFile(World, a))
    \cup {p[1] : p \in {q \in ledger.appendedFor : q[2] = a}}

\* the ids of the rows the file of an account had at mount
StoredIds(a) == IdsOfFile(IF a = "first" THEN StoredFirst ELSE StoredSecond)

\* C40: whatever reads and writes are still in flight when the account
\* changes, the ledger and the known-id set hold only records of the
\* current account (read from its file or appended for it), and every row
\* added to a file was appended for the account of that file.
C40_AccountsApart ==
  /\ \A k \in 1..Len(ledger.allExecutions) :
        ledger.allExecutions[k].id \in IdsOfAccount(ledger.account)
  /\ ledger.knownIds \subseteq IdsOfAccount(ledger.account)
  /\ \A a \in Accounts :
        \A id \in IdsOfFile(LedgerFile(World, a)) \ StoredIds(a) :
           <<id, a>> \in ledger.appendedFor
  /\ \A k \in 1..Len(ledger.queue) :
        <<ledger.queue[k].id, ledger.queueFile[k]>> \in ledger.appendedFor

\* the account changed while the first account's log was being read, and
\* changed back while a write for the second account was queued: the stale
\* read has ended, the first account's log is loaded, an execution was
\* appended for it, and its write is queued behind the second account's
C40_Witness ==
  /\ ledger.account = "first"
  /\ ledger.switches = 2
  /\ ledger.staleDone > 0
  /\ ledger.loaded
  /\ ledger.knownIds = StoredIds("first") \cup {1}
  /\ ledger.appendedFor = {<<2, "second">>, <<1, "first">>}
  /\ ledger.queueFile = <<"second", "first">>
  /\ ledger.disk = StoredFirst
  /\ ledger.disk2 = StoredSecond

====
